---- MODULE Spec2Model ----
(***************************************************************************)
(* A model of the Claude Awakens forum back end: the forum_posts tree and  *)
(* its submission and moderation functions, the ban and word-filter gate,  *)
(* the vote aggregate, the AI identity registry and the AI trigger         *)
(* evaluator with its activity ledger.                                     *)
(*                                                                         *)
(* Conventions.  SQL NULL is 0 for ids, a negative number for nullable    *)
(* timestamps, "NULL" for short strings and NullText for TEXT values.  A   *)
(* TEXT value is a sequence of one-character strings.  Time is counted in  *)
(* whole hours.  Every SQL function runs as one transaction and is one     *)
(* action, except toggle_vote and register_forum_ai, which are split where *)
(* READ COMMITTED lets other transactions in between a read and the write  *)
(* that depends on it; a Netlify handler is one action per database round  *)
(* trip.                                                                   *)
(***************************************************************************)
EXTENDS Integers, Sequences, FiniteSets, Bags, TLC

VARIABLES
    posts,        \* forum_posts: sequence of rows, the id is the index
    bans,         \* forum_bans: sequence of rows
    votes,        \* forum_votes: set of rows [user_id, post_id, vote_type]
    identities,   \* forum_ai_identities: sequence of rows
    ledger,       \* forum_ai_activity: bag of rows
    metrics,      \* forum_metrics: metric_name -> metric_value
    settings,     \* forum_ai_settings: setting_name -> setting_value (text)
    now,          \* NOW(), in hours
    fr,           \* the forceRespond handler in flight
    vs,           \* toggle_vote transactions in flight
    rs,           \* register_forum_ai transactions in flight
    cr,           \* checkAndRespond handlers in flight
    hs,           \* human_submit_post transactions in flight
    ev,           \* check_ai_trigger transactions in flight and the number committed
    observe,      \* whether the responses are observed (fixed by the initial state)
    ret           \* the response of the last call that returned, when observed

vars == <<posts, bans, votes, identities, ledger, metrics, settings, now, fr, vs, rs, observe, hs, ev, cr, ret>>

(***************************************************************************)
(* TEXT values and the SQL string functions the code uses.                 *)
(***************************************************************************)
NullText == <<"NULL">>

IsNullText(t) == t = NullText

LowerChar(c) ==
    CASE c = "K" -> "k"
      [] c = "Y" -> "y"
      [] c = "S" -> "s"
      [] c = "B" -> "b"
      [] c = "O" -> "o"
      [] c = "T" -> "t"
      [] OTHER -> c

\* LOWER(t)
Lower(t) == [i \in 1..Len(t) |-> LowerChar(t[i])]

RECURSIVE LTrim(_)
LTrim(t) == IF t # <<>> /\ Head(t) = " " THEN LTrim(Tail(t)) ELSE t

RECURSIVE RTrim(_)
RTrim(t) == IF t # <<>> /\ t[Len(t)] = " " THEN RTrim(SubSeq(t, 1, Len(t) - 1)) ELSE t

\* TRIM(t): strips the spaces at both ends
Trim(t) == RTrim(LTrim(t))

\* LEFT(t, n)
Left(t, n) == SubSeq(t, 1, IF Len(t) < n THEN Len(t) ELSE n)

\* t LIKE '%' || w || '%' for a word w without LIKE wildcards
Contains(t, w) ==
    \E i \in 0..(Len(t) - Len(w)) : SubSeq(t, i + 1, i + Len(w)) = w

\* COALESCE(t, '')
CoalesceText(t) == IF IsNullText(t) THEN <<>> ELSE t

\* a || b, NULL when either side is NULL
Concat(a, b) == IF IsNullText(a) \/ IsNullText(b) THEN NullText ELSE a \o b

MinContentLen == 10

\* p_content IS NULL OR LENGTH(TRIM(p_content)) < 10
ContentTooShort(c) == IsNullText(c) \/ Len(Trim(c)) < MinContentLen

(***************************************************************************)
(* Sample TEXT inputs.                                                     *)
(***************************************************************************)
GoodContent == <<"h","e","l","l","o"," ","w","o","r","l","d">>

\* eleven characters, five after TRIM
PaddedShort == <<" "," "," ","s","h","o","r","t"," "," "," ">>

\* holds the block word 'kys' in upper case
BlockContent == <<"p","l","e","a","s","e"," ","K","Y","S"," ","n","o","w">>

\* holds only the flag word 'shit'
FlagContent == <<"h","o","l","y"," ","s","h","i","t"," ","b","o","t">>

GoodTitle == <<"T","o","p","i","c">>

\* a title that holds the block word 'kys'
BlockTitle == <<"k","y","s">>

(***************************************************************************)
(* forum_word_filters: the seeded rows.  The other seeded block rows are   *)
(* slurs that behave exactly as the two block rows kept here.              *)
(***************************************************************************)
WordFilters ==
    { [word |-> <<"s","h","i","t">>, filter_type |-> "flag"],
      [word |-> <<"k","y","s">>, filter_type |-> "block"],
      [word |-> <<"k","i","l","l"," ","y","o","u","r","s","e","l","f">>, filter_type |-> "block"] }

\* the loop of check_content_filter without its test of filter_type
MatchedWords_any_type(filters, c, type) ==
    IF IsNullText(c) THEN {}
    ELSE { f.word : f \in { g \in filters : Contains(Lower(c), Lower(g.word)) } }

\* the loop of check_content_filter(p_content) over the rows of
\* forum_word_filters: the words of one filter_type found in LOWER(p_content)
MatchedWords(filters, c, type) ==
    IF IsNullText(c) THEN {}
    ELSE { f.word : f \in { g \in filters :
              g.filter_type = type /\ Contains(Lower(c), Lower(g.word)) } }

\* check_content_filter(p_content): the words blocked and the words flagged
BlockedWords(c) == MatchedWords(WordFilters, c, "block")

FlaggedWords(c) == MatchedWords(WordFilters, c, "flag")

\* the JSON check_content_filter returns when forum_word_filters holds filters
content_filter_json(filters, c) ==
    [passed |-> MatchedWords(filters, c, "block") = {},
     blocked_words |-> MatchedWords(filters, c, "block"),
     flagged_words |-> MatchedWords(filters, c, "flag"),
     should_flag |-> MatchedWords(filters, c, "flag") # {}]

check_content_filter(c) == content_filter_json(WordFilters, c)

(***************************************************************************)
(* auth.users and profiles.  Three accounts exist: an admin, a moderator   *)
(* and a plain user; auth.uid() is 0 for a caller without a session.       *)
(***************************************************************************)
Users == {1, 2, 3}

profiles ==
    [u \in Users |-> [is_admin |-> (u = 1), is_moderator |-> (u = 2)]]

\* the mutant: any signed-in user passes the moderator check
IsMod_signed_in(u) == u # 0

\* COALESCE((SELECT is_admin OR is_moderator FROM profiles WHERE id = u), FALSE)
IsMod(u) == u \in Users /\ (profiles[u].is_admin \/ profiles[u].is_moderator)

\* the administrator check passed by every staff member
IsAdmin_any_staff(u) == u \in Users /\ (profiles[u].is_admin \/ profiles[u].is_moderator)

\* COALESCE((SELECT is_admin FROM profiles WHERE id = u), FALSE)
IsAdmin(u) == u \in Users /\ profiles[u].is_admin

(***************************************************************************)
(* forum_posts.                                                            *)
(***************************************************************************)
\* a row as the INSERT statements build it; id is the next BIGSERIAL value,
\* moderated_by is NULL and vote_score takes its default 0
NewPost(ps, title, content, user_id, author_type, parent_id, thread_id, status, ai_model, ai_session_id, at) ==
    [id |-> Len(ps) + 1, title |-> title, content |-> content, user_id |-> user_id,
     author_type |-> author_type, parent_id |-> parent_id, thread_id |-> thread_id,
     status |-> status, moderated_by |-> 0, created_at |-> at,
     ai_model |-> ai_model, ai_session_id |-> ai_session_id, vote_score |-> 0]

\* the three seeded posts of 001_forum_tables.sql
SeedPosts ==
    [i \in 1..3 |->
        [id |-> i, title |-> GoodTitle, content |-> GoodContent, user_id |-> 0,
         author_type |-> "ai", parent_id |-> 0, thread_id |-> i,
         status |-> "approved", moderated_by |-> 0, created_at |-> 0,
         ai_model |-> "NULL", ai_session_id |-> "NULL", vote_score |-> 0]]

PostIds(ps) == 1..Len(ps)

\* SELECT COALESCE(thread_id, id) FROM forum_posts WHERE id = p [AND status = 'approved'];
\* 0 (NULL) when no row is selected
ParentThread(ps, p, approvedOnly) ==
    IF p \in PostIds(ps) /\ (~approvedOnly \/ ps[p].status = "approved")
    THEN (IF ps[p].thread_id = 0 THEN ps[p].id ELSE ps[p].thread_id)
    ELSE 0

\* INSERT ... RETURNING id, then UPDATE forum_posts SET thread_id = id WHERE
\* id = v_new_id when the post is top-level: the tail every SQL submit function shares
InsertAndPatch(ps, row) ==
    Append(ps, IF row.parent_id = 0 THEN [row EXCEPT !.thread_id = row.id] ELSE row)

Resp(op, ok, error, id, status) ==
    [op |-> op, success |-> ok, error |-> error, id |-> id, status |-> status,
     triggered |-> FALSE, reason |-> "", persona |-> "", target |-> 0]

NoResp == Resp("none", FALSE, "", 0, "")

\* human_submit_post(p_content, p_title, p_parent_id)
human_submit_post(ps, content, title, parent, at) ==
    LET v_thread_id == IF parent # 0 THEN ParentThread(ps, parent, TRUE) ELSE 0
        row == NewPost(ps, title, content, 0, "human", parent, v_thread_id,
                       "approved", "NULL", "NULL", at)
    IN  IF ContentTooShort(content)
        THEN [posts |-> ps, ret |-> Resp("human_submit_post", FALSE, "too_short", 0, "")]
        ELSE IF parent # 0 /\ v_thread_id = 0
        THEN [posts |-> ps, ret |-> Resp("human_submit_post", FALSE, "parent_not_found", 0, "")]
        ELSE [posts |-> InsertAndPatch(ps, row),
              ret |-> Resp("human_submit_post", TRUE, "", row.id, "approved")]

\* create_forum_post(p_title, p_content, p_parent_id, p_author_type, p_ai_model,
\* p_ai_session_id) called by auth.uid() = uid
create_forum_post(ps, uid, title, content, parent, author_type, ai_model, session, at) ==
    LET v_thread_id == IF parent # 0 THEN ParentThread(ps, parent, FALSE) ELSE 0
        v_status == IF author_type = "ai" THEN "pending" ELSE "approved"
        row == NewPost(ps, title, content, uid, author_type, parent, v_thread_id,
                       v_status, ai_model, session, at)
    IN  IF uid = 0
        THEN [posts |-> ps, ret |-> Resp("create_forum_post", FALSE, "auth_required", 0, "")]
        ELSE IF parent # 0 /\ v_thread_id = 0
        THEN [posts |-> ps, ret |-> Resp("create_forum_post", FALSE, "parent_not_found", 0, "")]
        ELSE [posts |-> InsertAndPatch(ps, row),
              ret |-> Resp("create_forum_post", TRUE, "", row.id, v_status)]

(***************************************************************************)
(* forum_bans and check_ban_status.                                        *)
(***************************************************************************)
\* the row ban_user inserts: banned_by is the admin, banned_at is NOW() and
\* is_active is TRUE by default; expires_at is -1 for NULL (permanent)
BanRow(admin, user_id, ip, session, ban_type, reason, expires_in_days, at) ==
    [user_id |-> user_id, ip_address |-> ip, ai_session_id |-> session,
     ban_type |-> ban_type, reason |-> reason, banned_by |-> admin, banned_at |-> at,
     expires_at |-> IF expires_in_days = 0 THEN -1 ELSE at + 24 * expires_in_days,
     is_active |-> TRUE]

\* ban_user(...) called by auth.uid() = uid; p_expires_in_days = 0 stands for NULL
ban_user(bs, uid, user_id, ip, session, ban_type, reason, expires_in_days, at) ==
    IF uid = 0
    THEN [bans |-> bs, ret |-> Resp("ban_user", FALSE, "auth_required", 0, "")]
    ELSE IF ~IsAdmin(uid)
    THEN [bans |-> bs, ret |-> Resp("ban_user", FALSE, "admin_required", 0, "")]
    ELSE [bans |-> Append(bs, BanRow(uid, user_id, ip, session, ban_type, reason,
                                     expires_in_days, at)),
          ret |-> Resp("ban_user", TRUE, "", 0, ban_type)]

\* the WHERE clause of check_ban_status
BanMatches(b, p_user_id, p_ip, p_session, at) ==
    /\ b.is_active
    /\ (b.expires_at < 0 \/ b.expires_at > at)
    /\ \/ (p_user_id # 0 /\ b.user_id = p_user_id)
       \/ (p_ip # "NULL" /\ b.ip_address = p_ip)
       \/ (p_session # "NULL" /\ b.ai_session_id = p_session)

\* v_ban IS NOT NULL: a row value is NOT NULL only when every field of it is
\* non-null; id, ban_type, banned_by, banned_at and is_active always are
BanRowIsNotNull(b) ==
    /\ b.user_id # 0
    /\ b.ip_address # "NULL"
    /\ b.ai_session_id # "NULL"
    /\ b.reason # "NULL"
    /\ b.expires_at >= 0

NotBanned == [is_banned |-> FALSE, ban_type |-> "NULL"]

\* the results check_ban_status may return: SELECT ... LIMIT 1 has no ORDER BY,
\* so any matching row may be the one selected
check_ban_status(bs, p_user_id, p_ip, p_session, at) ==
    LET rows == { i \in 1..Len(bs) : BanMatches(bs[i], p_user_id, p_ip, p_session, at) }
    IN  IF rows = {} THEN { NotBanned }
        ELSE { IF BanRowIsNotNull(bs[i])
               THEN [is_banned |-> TRUE, ban_type |-> bs[i].ban_type]
               ELSE NotBanned : i \in rows }

\* ai_submit_post(p_content, p_title, p_parent_id, p_author_name, p_ai_model,
\* p_ai_session_id) of 002_moderation_features.sql, given the result v_ban_check
ai_submit_post(ps, v_ban_check, content, title, parent, ai_model, session, at) ==
    LET v_filter_check == check_content_filter(Concat(Concat(CoalesceText(title), <<" ">>), content))
        v_thread_id == IF parent # 0 THEN ParentThread(ps, parent, TRUE) ELSE 0
        row == NewPost(ps, title, content, 0, "ai", parent, v_thread_id,
                       "pending", ai_model, session, at)
    IN  IF v_ban_check.is_banned /\ v_ban_check.ban_type = "shadow"
        THEN [posts |-> ps, ret |-> Resp("ai_submit_post", TRUE, "", 0, "pending")]
        ELSE IF v_ban_check.is_banned
        THEN [posts |-> ps, ret |-> Resp("ai_submit_post", FALSE, "not_allowed", 0, "")]
        ELSE IF ~v_filter_check.passed
        THEN [posts |-> ps, ret |-> Resp("ai_submit_post", FALSE, "prohibited", 0, "")]
        ELSE IF ContentTooShort(content)
        THEN [posts |-> ps, ret |-> Resp("ai_submit_post", FALSE, "too_short", 0, "")]
        ELSE IF parent # 0 /\ v_thread_id = 0
        THEN [posts |-> ps, ret |-> Resp("ai_submit_post", FALSE, "parent_not_found", 0, "")]
        ELSE [posts |-> InsertAndPatch(ps, row),
              ret |-> Resp("ai_submit_post", TRUE, "", row.id, "pending")]

(***************************************************************************)
(* forum_ai_identities.  An API key is modelled by the number of the       *)
(* registration that issued it; sha256 is injective on those.              *)
(***************************************************************************)
IdentityRow(ids, name, ai_model, at) ==
    [id |-> Len(ids) + 1, api_key |-> Len(ids) + 1, display_name |-> name,
     ai_model |-> ai_model, post_count |-> 0, is_trusted |-> FALSE,
     last_seen_at |-> at, last_post_at |-> -1, revoked_at |-> -1]

\* p_display_name IS NULL OR LENGTH(TRIM(p_display_name)) < 2
NameTooShort(name) == IsNullText(name) \/ Len(Trim(name)) < 2

\* EXISTS (SELECT 1 FROM forum_ai_identities WHERE LOWER(display_name) =
\* LOWER(TRIM(p_display_name)) AND revoked_at IS NULL)
NameTaken(ids, name) ==
    \E i \in 1..Len(ids) :
        Lower(ids[i].display_name) = Lower(Trim(name)) /\ ids[i].revoked_at < 0

\* the key lookup without its revoked_at IS NULL condition
IdentityOfKey_any_row(ids, key) ==
    IF \E i \in 1..Len(ids) : ids[i].api_key = key
    THEN CHOOSE i \in 1..Len(ids) : ids[i].api_key = key
    ELSE 0

\* the identity row an API key selects, 0 when none: api_key_hash matches and
\* revoked_at IS NULL
IdentityOfKey(ids, key) ==
    IF \E i \in 1..Len(ids) : ids[i].api_key = key /\ ids[i].revoked_at < 0
    THEN CHOOSE i \in 1..Len(ids) : ids[i].api_key = key /\ ids[i].revoked_at < 0
    ELSE 0

\* ai_submit_with_key(p_api_key, p_content, p_title, p_parent_id)
ai_submit_with_key(ps, ids, key, content, title, parent, at) ==
    LET v == IdentityOfKey(ids, key)
        v_thread_id == IF parent # 0 THEN ParentThread(ps, parent, TRUE) ELSE 0
        v_status == IF ids[v].is_trusted THEN "approved" ELSE "pending"
        row == NewPost(ps, title, Trim(content), 0, "ai", parent, v_thread_id,
                       v_status, ids[v].ai_model, ToString(ids[v].id), at)
    IN  IF v = 0
        THEN [posts |-> ps, identities |-> ids,
              ret |-> Resp("ai_submit_with_key", FALSE, "invalid_key", 0, "")]
        ELSE IF ContentTooShort(content)
        THEN [posts |-> ps, identities |-> ids,
              ret |-> Resp("ai_submit_with_key", FALSE, "too_short", 0, "")]
        ELSE IF parent # 0 /\ v_thread_id = 0
        THEN [posts |-> ps, identities |-> ids,
              ret |-> Resp("ai_submit_with_key", FALSE, "parent_not_found", 0, "")]
        ELSE [posts |-> InsertAndPatch(ps, row),
              identities |-> [ids EXCEPT ![v].post_count = @ + 1,
                                         ![v].last_seen_at = at,
                                         ![v].last_post_at = at],
              ret |-> Resp("ai_submit_with_key", TRUE, "", row.id, v_status)]

(***************************************************************************)
(* Moderation and the promote_orphans_on_delete trigger.                   *)
(***************************************************************************)
ThreadPrefix == <<"[","T","h","r","e","a","d","]"," ">>

Dots == <<".",".",".">>

PromoteTitleLen == 50

\* handle_parent_deletion() without the CASE that gives a promoted reply a title
handle_parent_deletion_no_title(ps, old, new) ==
    IF new.status = "deleted" /\ old.status # "deleted"
    THEN [i \in 1..Len(ps) |->
            IF ps[i].parent_id = old.id
            THEN [ps[i] EXCEPT !.parent_id = 0, !.thread_id = ps[i].id]
            ELSE ps[i]]
    ELSE ps

\* the trigger function without its test of OLD.status
handle_parent_deletion_every_update(ps, old, new) ==
    IF new.status = "deleted"
    THEN [i \in 1..Len(ps) |->
            IF ps[i].parent_id = old.id
            THEN [ps[i] EXCEPT
                    !.parent_id = 0,
                    !.thread_id = ps[i].id,
                    !.title = IF IsNullText(ps[i].title)
                              THEN ThreadPrefix \o Left(ps[i].content, PromoteTitleLen) \o Dots
                              ELSE ps[i].title]
            ELSE ps[i]]
    ELSE ps

\* handle_parent_deletion(), fired AFTER UPDATE for the row OLD -> NEW when
\* NEW.status = 'deleted'.  Its own UPDATE fires the trigger again only for
\* children that are themselves deleted, where OLD.status = 'deleted' and
\* nothing happens.
handle_parent_deletion(ps, old, new) ==
    IF new.status = "deleted" /\ old.status # "deleted"
    THEN [i \in 1..Len(ps) |->
            IF ps[i].parent_id = old.id
            THEN [ps[i] EXCEPT
                    !.parent_id = 0,
                    !.thread_id = ps[i].id,
                    !.title = IF IsNullText(ps[i].title)
                              THEN ThreadPrefix \o Left(ps[i].content, PromoteTitleLen) \o Dots
                              ELSE ps[i].title]
            ELSE ps[i]]
    ELSE ps

\* the CASE of the UPDATE in moderate_forum_post
ModeratedStatus(action, status) ==
    CASE action = "approve" -> "approved"
      [] action = "reject" -> "rejected"
      [] action = "delete" -> "deleted"
      [] OTHER -> status

\* moderate_forum_post(p_post_id, p_action) called by auth.uid() = uid
moderate_forum_post(ps, uid, p, action) ==
    IF uid = 0
    THEN [posts |-> ps, ret |-> Resp("moderate_forum_post", FALSE, "auth_required", p, action)]
    ELSE IF ~IsMod(uid)
    THEN [posts |-> ps, ret |-> Resp("moderate_forum_post", FALSE, "mod_required", p, action)]
    ELSE IF p \notin PostIds(ps)
    THEN [posts |-> ps, ret |-> Resp("moderate_forum_post", TRUE, "", p, action)]
    ELSE LET new == [ps[p] EXCEPT !.status = ModeratedStatus(action, ps[p].status),
                                  !.moderated_by = uid]
             updated == [ps EXCEPT ![p] = new]
         IN  [posts |-> IF new.status = "deleted"
                        THEN handle_parent_deletion(updated, ps[p], new)
                        ELSE updated,
              ret |-> Resp("moderate_forum_post", TRUE, "", p, action)]

(***************************************************************************)
(* The activity ledger and the forceRespond handler.                       *)
(***************************************************************************)
Personas == {"Alex", "Maya", "Luna", "Sam", "Zen", "Chris"}

\* record_ai_post(p_persona_name, p_post_id, p_action_type)
record_ai_post(lg, persona, post_id, action_type, at) ==
    lg (+) SetToBag({[persona_name |-> persona, action_type |-> action_type,
                      post_id |-> post_id, created_at |-> at]})

\* getTemplateResponse(persona, post): three canned strings for each persona,
\* Chris's for a name outside the roster
Templates(persona) ==
    LET who == IF persona \in Personas THEN persona ELSE "Chris"
    IN  { <<"c","a","n","n","e","d"," ","l","i","n","e"," ", k, " ", who>> : k \in {"1", "2", "3"} }

RecentLimit == 5

\* .eq('status', 'approved').order('created_at', { ascending: false }).limit(5):
\* the posts that may be among the five rows returned (ties in created_at are
\* ordered arbitrarily)
RecentApproved(ps) ==
    { i \in PostIds(ps) :
        /\ ps[i].status = "approved"
        /\ Cardinality({ j \in PostIds(ps) : ps[j].status = "approved"
                            /\ ps[j].created_at > ps[i].created_at }) < RecentLimit }

FrIdle == [pc |-> "idle", persona |-> "", target |-> 0, as_reply |-> FALSE,
           content |-> <<>>, title |-> NullText, new_id |-> 0]

TopTitleLen == 40

\* the title of a forced top-level post:
\* `${persona}: ${targetPost.title || targetPost.content.substring(0, 40) + '...'}`
ForcedTitle(persona, target) ==
    <<persona, ":", " ">> \o
        (IF IsNullText(target.title) \/ target.title = <<>>
         THEN Left(target.content, TopTitleLen) \o Dots
         ELSE target.title)

\* insertData of forceRespond
ForcedRow(ps, f, at) ==
    IF f.as_reply
    THEN NewPost(ps, NullText, f.content, 0, "ai", f.target, f.target,
                 "approved", "pollinations-ai", "force", at)
    ELSE NewPost(ps, f.title, f.content, 0, "ai", 0, 0,
                 "approved", "pollinations-ai", "force", at)

(***************************************************************************)
(* The initial state: the tables as the migrations leave them.             *)
(***************************************************************************)
DefaultSettings ==
    [trigger_enabled |-> "true", min_time_between_ai_hours |-> "2",
     posts_threshold |-> "3", page_views_threshold |-> "20",
     random_chance |-> "0.3", max_ai_posts_per_day |-> "10",
     max_posts_per_persona_day |-> "3", cooldown_per_persona_hours |-> "4"]

InitialMetrics ==
    [page_views |-> 0, page_views_since_ai |-> 0, posts_since_ai |-> 0,
     last_ai_post_time |-> 0]

Tables ==
    /\ posts = SeedPosts
    /\ bans = <<>>
    /\ votes = {}
    /\ identities = <<>>
    /\ ledger = EmptyBag
    /\ metrics = InitialMetrics
    /\ settings = DefaultSettings
    /\ now = 0
    /\ fr = FrIdle
    /\ vs = <<>>
    /\ rs = <<>>
    /\ cr = <<>>
    /\ hs = <<>>
    /\ ev = [flight |-> <<>>, completed |-> 0]
    /\ ret = NoResp

\* the responses are observed
Init == Tables /\ observe = TRUE

\* the tables alone are observed
InitQuiet == Tables /\ observe = FALSE

\* the response a call returns, as far as responses are observed
Returns(r) == ret' = IF observe THEN r ELSE ret

(***************************************************************************)
(* Bounds of the model.                                                    *)
(***************************************************************************)
MaxPosts == 5

MaxIdentities == 2

MaxRegs == 2

MaxBans == 1

\* the clock stops here, in hours
MaxNow == 24

\* the next post fits the bound, counting the row a forceRespond in flight is
\* about to insert
Room == Len(posts) + (IF fr.pc = "insert" THEN 1 ELSE 0) < MaxPosts

(***************************************************************************)
(* The calls, one action each.                                             *)
(***************************************************************************)
HumanSubmit(content, title, parent) ==
    /\ Room
    /\ LET r == human_submit_post(posts, content, title, parent, now)
       IN  posts' = r.posts /\ Returns(r.ret)
    /\ UNCHANGED <<bans, votes, identities, ledger, metrics, settings, now, fr, vs, rs, observe, ev, hs, cr>>

CreateForumPost(uid, title, content, parent, author_type, ai_model, session) ==
    /\ Room
    /\ LET r == create_forum_post(posts, uid, title, content, parent, author_type,
                                  ai_model, session, now)
       IN  posts' = r.posts /\ Returns(r.ret)
    /\ UNCHANGED <<bans, votes, identities, ledger, metrics, settings, now, fr, vs, rs, observe, ev, hs, cr>>

AiSubmitPost(content, title, parent, ai_model, session) ==
    /\ Room
    /\ \E v_ban_check \in check_ban_status(bans, 0, "NULL", session, now) :
          LET r == ai_submit_post(posts, v_ban_check, content, title, parent,
                                  ai_model, session, now)
          IN  posts' = r.posts /\ Returns(r.ret)
    /\ UNCHANGED <<bans, votes, identities, ledger, metrics, settings, now, fr, vs, rs, observe, ev, hs, cr>>

AiSubmitWithKey(key, content, title, parent) ==
    /\ Room
    /\ LET r == ai_submit_with_key(posts, identities, key, content, title, parent, now)
       IN  posts' = r.posts /\ identities' = r.identities /\ Returns(r.ret)
    /\ UNCHANGED <<bans, votes, ledger, metrics, settings, now, fr, vs, rs, observe, ev, hs, cr>>

Moderate(uid, p, action) ==
    /\ LET r == moderate_forum_post(posts, uid, p, action)
       IN  posts' = r.posts /\ Returns(r.ret)
    /\ UNCHANGED <<bans, votes, identities, ledger, metrics, settings, now, fr, vs, rs, observe, ev, hs, cr>>

BanUser(uid, user_id, ip, session, ban_type, reason, expires_in_days) ==
    /\ Len(bans) < MaxBans
    /\ LET r == ban_user(bans, uid, user_id, ip, session, ban_type, reason,
                         expires_in_days, now)
       IN  bans' = r.bans /\ Returns(r.ret)
    /\ UNCHANGED <<posts, votes, identities, ledger, metrics, settings, now, fr, vs, rs, observe, ev, hs, cr>>

\* forceRespond up to the fetch: the persona, the target row read from
\* forum_posts and the text to post.  generated is the text the generation
\* service returned, NullText when the request threw.
ForceSelect(persona, post_id, as_reply, generated) ==
    /\ fr.pc = "idle"
    /\ Room
    /\ \E target \in (IF post_id # 0
                      THEN (IF post_id \in PostIds(posts) THEN {post_id} ELSE {0})
                      ELSE (IF RecentApproved(posts) = {} THEN {0} ELSE RecentApproved(posts))) :
          IF target = 0
          THEN fr' = fr /\ Returns(Resp("forceRespond", FALSE, "no_target", 0, ""))
          ELSE IF persona \notin Personas
          THEN fr' = fr /\ Returns(Resp("forceRespond", FALSE, "exception", 0, ""))
          ELSE \E text \in (IF IsNullText(generated) THEN Templates(persona)
                            ELSE {Trim(generated)}) :
                  /\ fr' = [pc |-> "insert", persona |-> persona, target |-> target,
                            as_reply |-> as_reply, content |-> text,
                            title |-> ForcedTitle(persona, posts[target]), new_id |-> 0]
                  /\ ret' = ret
    /\ UNCHANGED <<posts, bans, votes, identities, ledger, metrics, settings, now, vs, rs, observe, ev, hs, cr>>

\* .from('forum_posts').insert(insertData).select('id').single()
ForceInsert ==
    /\ fr.pc = "insert"
    /\ LET row == ForcedRow(posts, fr, now)
       IN  /\ posts' = Append(posts, row)
           /\ fr' = [fr EXCEPT !.pc = IF fr.as_reply THEN "record" ELSE "patch",
                               !.new_id = row.id]
    /\ UNCHANGED <<bans, votes, identities, ledger, metrics, settings, now, vs, rs, observe, ev, hs, cr, ret>>

\* .update({ thread_id: insertResult.id }).eq('id', insertResult.id)
ForcePatch ==
    /\ fr.pc = "patch"
    /\ posts' = [posts EXCEPT ![fr.new_id].thread_id = fr.new_id]
    /\ fr' = [fr EXCEPT !.pc = "record"]
    /\ UNCHANGED <<bans, votes, identities, ledger, metrics, settings, now, vs, rs, observe, ev, hs, cr, ret>>

\* rpc('record_ai_post', ..., p_action_type: 'reply') and the response
ForceRecord ==
    /\ fr.pc = "record"
    /\ ledger' = record_ai_post(ledger, fr.persona, fr.new_id, "reply", now)
    /\ Returns([Resp("forceRespond", TRUE, "", fr.new_id, "approved")
                    EXCEPT !.persona = fr.persona, !.target = fr.target])
    /\ fr' = FrIdle
    /\ UNCHANGED <<posts, bans, votes, identities, metrics, settings, now, vs, rs, observe, ev, hs, cr>>

(***************************************************************************)
(* register_forum_ai.  Under READ COMMITTED the EXISTS check and the       *)
(* INSERT are two statements with a snapshot each, and display_name has    *)
(* no unique index: the transaction is two steps, the check and the insert.*)
(***************************************************************************)
BotName == <<"B","o","t">>

\* the same name in lower case, padded with spaces
BotNamePadded == <<" ","b","o","t"," ">>

OtherName == <<"S","k","y">>

ShortName == <<" ","B"," ">>

\* the validation and the EXISTS check of register_forum_ai
register_check(ids, name) ==
    IF NameTooShort(name) THEN "name_too_short"
    ELSE IF NameTaken(ids, name) THEN "name_taken"
    ELSE "ok"

\* the INSERT of register_forum_ai
register_insert(ids, name, ai_model, at) ==
    Append(ids, IdentityRow(ids, Trim(name), ai_model, at))

RegisterCheck(name, ai_model) ==
    /\ Len(rs) < MaxRegs
    /\ Len(identities) + Len(rs) < MaxIdentities
    /\ LET v == register_check(identities, name)
       IN  IF v = "ok"
           THEN rs' = Append(rs, [name |-> name, ai_model |-> ai_model]) /\ ret' = ret
           ELSE rs' = rs /\ Returns(Resp("register_forum_ai", FALSE, v, 0, ""))
    /\ UNCHANGED <<posts, bans, votes, identities, ledger, metrics, settings, now, fr, vs, observe, ev, hs, cr>>

RegisterInsert(i) ==
    /\ i \in 1..Len(rs)
    /\ identities' = register_insert(identities, rs[i].name, rs[i].ai_model, now)
    /\ rs' = [j \in 1..(Len(rs) - 1) |-> IF j < i THEN rs[j] ELSE rs[j + 1]]
    /\ Returns(Resp("register_forum_ai", TRUE, "", Len(identities) + 1, ""))
    /\ UNCHANGED <<posts, bans, votes, ledger, metrics, settings, now, fr, vs, observe, ev, hs, cr>>

(***************************************************************************)
(* The post tree: submissions, moderation and forced responses.            *)
(***************************************************************************)
\* the posts the callers address: the first seeded thread and the posts
\* submitted since
TreeTargets == {1} \cup (4..Len(posts))

TreeHuman ==
    \E t \in {NullText, GoodTitle}, p \in {0} \cup TreeTargets :
        HumanSubmit(GoodContent, t, p)

\* a signed-in user replies; the parent need not be approved
TreeCreate ==
    \E p \in TreeTargets :
        CreateForumPost(3, NullText, GoodContent, p, "human", "NULL", "NULL")

TreeAiSubmit ==
    \E p \in {0} \cup TreeTargets : AiSubmitPost(GoodContent, NullText, p, "NULL", "NULL")

TreeModerate ==
    \E p \in TreeTargets, a \in {"approve", "reject", "delete"} : Moderate(2, p, a)

TreeNext ==
    \/ TreeHuman
    \/ TreeCreate
    \/ TreeAiSubmit
    \/ TreeModerate

SpecTree == InitQuiet /\ [][TreeNext]_vars

TreeForceSelect ==
    \E p \in {0} \cup TreeTargets, r \in BOOLEAN : ForceSelect("Alex", p, r, GoodContent)

ForceNext ==
    \/ TreeHuman
    \/ TreeCreate
    \/ TreeAiSubmit
    \/ TreeModerate
    \/ TreeForceSelect
    \/ ForceInsert
    \/ ForcePatch
    \/ ForceRecord

\* the post tree with the forceRespond handler beside the SQL functions
SpecForce == InitQuiet /\ [][ForceNext]_vars

(***************************************************************************)
(* Claims about the post tree.                                             *)
(***************************************************************************)
\* thread_id of post p names a post whose thread_id is its own id
ThreadResolves(ps, p) ==
    /\ ps[p].thread_id \in PostIds(ps)
    /\ ps[ps[p].thread_id].thread_id = ps[p].thread_id

\* C1: once the calls in flight have returned, every approved post has a
\* thread_id that names a post whose own thread_id equals its own id.
C1_ApprovedThreadResolves ==
    fr.pc = "idle" =>
        \A p \in PostIds(posts) : posts[p].status = "approved" => ThreadResolves(posts, p)

\* C2: when a step moves a post P that was not deleted to status 'deleted',
\* every post that had parent_id = P has, after the step, parent_id NULL,
\* thread_id equal to its own id and a non-null title, and no post has
\* parent_id = P.
C2_DeletePromotesChildren ==
    [][\A p \in PostIds(posts) :
          (posts[p].status # "deleted" /\ posts'[p].status = "deleted") =>
              /\ \A c \in PostIds(posts) :
                    posts[c].parent_id = p =>
                        /\ posts'[c].parent_id = 0
                        /\ posts'[c].thread_id = c
                        /\ ~IsNullText(posts'[c].title)
              /\ \A c \in PostIds(posts') : posts'[c].parent_id # p]_vars

IsPromotedTitle(t) ==
    Len(t) >= Len(ThreadPrefix) /\ SubSeq(t, 1, Len(ThreadPrefix)) = ThreadPrefix

\* post 1 is the only post ever moderated, it is deleted, and two replies to
\* it were promoted to roots and given a title
C2_Witness ==
    /\ Len(posts) >= 5
    /\ posts[1].status = "deleted"
    /\ \A c \in {4, 5} :
          /\ posts[c].moderated_by = 0
          /\ posts[c].parent_id = 0
          /\ posts[c].thread_id = c
          /\ IsPromotedTitle(posts[c].title)

\* the status changes the state machine of Post.status allows
AllowedTransition(from, to) ==
    \/ from = "pending" /\ to \in {"approved", "rejected"}
    \/ from \in {"pending", "approved", "rejected"} /\ to = "deleted"

\* C7: a post's status changes only along pending -> approved, pending ->
\* rejected or {pending, approved, rejected} -> deleted; a deleted post's
\* status never changes again.
C7_StatusMachine ==
    [][\A p \in PostIds(posts) :
          posts'[p].status # posts[p].status =>
              AllowedTransition(posts[p].status, posts'[p].status)]_vars

(***************************************************************************)
(* The admission gate: bans, the word filter and the length check, with    *)
(* the responses observed.                                                 *)
(***************************************************************************)
\* NOW() advances by d hours
Tick(d) ==
    /\ now + d <= MaxNow
    /\ now' = now + d
    /\ UNCHANGED <<posts, bans, votes, identities, ledger, metrics, settings, fr, vs, rs, observe, ev, hs, cr, ret>>

\* the posts the gate is exercised with, the seeded ones included
MaxGatePosts == 4

GateRoom == Len(posts) + (IF fr.pc = "insert" THEN 1 ELSE 0) < MaxGatePosts

GateContents == {GoodContent, PaddedShort, BlockContent}

GateSessions == {"s1", "s2"}

\* the bans the administrator issues: a permanent shadow ban naming a session
\* alone, a one-day shadow ban and a one-day full ban naming user, address and session
GateBans ==
    { [user_id |-> 0, ip |-> "NULL", session |-> "s1", ban_type |-> "shadow", reason |-> "NULL", days |-> 0],
      [user_id |-> 3, ip |-> "ip1", session |-> "s1", ban_type |-> "shadow", reason |-> "spam", days |-> 1],
      [user_id |-> 3, ip |-> "ip1", session |-> "s2", ban_type |-> "full", reason |-> "spam", days |-> 1] }

GateBan ==
    \E uid \in {1, 3}, b \in GateBans :
        BanUser(uid, b.user_id, b.ip, b.session, b.ban_type, b.reason, b.days)

GateTick == Tick(24)

GateHuman(c) == GateRoom /\ HumanSubmit(c, NullText, 0)

GateCreate(c) == GateRoom /\ \E uid \in {0, 3} : CreateForumPost(uid, NullText, c, 0, "human", "NULL", "NULL")

GateAiBy(c, s) == GateRoom /\ \E t \in {NullText, BlockTitle} : AiSubmitPost(c, t, 0, "NULL", s)

GateAi(c) == \E s \in GateSessions : GateAiBy(c, s)

\* the generation service answers with a short text or with a blocked word
GateForceSelect ==
    GateRoom /\ \E r \in BOOLEAN, g \in {PaddedShort, BlockContent} : ForceSelect("Alex", 1, r, g)

GateNext ==
    \/ GateBan
    \/ GateTick
    \/ \E c \in GateContents : GateHuman(c)
    \/ \E c \in GateContents : GateCreate(c)
    \/ \E c \in GateContents : GateAi(c)
    \/ GateForceSelect
    \/ ForceInsert
    \/ ForcePatch
    \/ ForceRecord

SpecGate == Init /\ [][GateNext]_vars

(***************************************************************************)
(* Claims about the admission gate.                                        *)
(***************************************************************************)
\* C4: every submission path given content whose trimmed length is below 10
\* characters returns a failure and persists no post, whatever the ban state,
\* the filter outcome, the persona or the authentication state; for the
\* forceRespond pipeline the insert of a short generated text persists no post.
C4_ShortContentFails ==
    [][/\ \A c \in GateContents :
            (ContentTooShort(c) /\ (GateHuman(c) \/ GateCreate(c) \/ GateAi(c)))
                => (~ret'.success /\ posts' = posts)
       /\ (fr.pc = "insert" /\ ContentTooShort(fr.content) /\ ForceInsert)
                => posts' = posts]_vars

\* the session is named by an active, unexpired ban of type 'shadow'
ShadowMatched(s) ==
    \E i \in 1..Len(bans) :
        /\ bans[i].is_active
        /\ (bans[i].expires_at < 0 \/ bans[i].expires_at > now)
        /\ bans[i].ai_session_id = s
        /\ bans[i].ban_type = "shadow"

\* C5: ai_submit_post called with a session matched by an active, unexpired
\* shadow ban returns success = true with status 'pending' and leaves the
\* rows of forum_posts unchanged.
C5_ShadowBanPersistsNothing ==
    [][\A c \in GateContents, s \in GateSessions :
            (ShadowMatched(s) /\ GateAiBy(c, s))
                => (ret'.success /\ ret'.status = "pending" /\ posts' = posts)]_vars

\* the submitter of the row is named by an active, unexpired ban
SubmitterBanned(row) ==
    \E i \in 1..Len(bans) :
        /\ bans[i].is_active
        /\ (bans[i].expires_at < 0 \/ bans[i].expires_at > now)
        /\ \/ (row.user_id # 0 /\ bans[i].user_id = row.user_id)
           \/ (row.ai_session_id # "NULL" /\ bans[i].ai_session_id = row.ai_session_id)

\* the row's title plus content holds a word of a 'block' filter
HoldsBlockedWord(row) ==
    \E f \in WordFilters :
        /\ f.filter_type = "block"
        /\ Contains(Lower(CoalesceText(row.title) \o <<" ">> \o row.content), Lower(f.word))

\* C6: no submission path persists a row whose title plus content contains a
\* 'block'-type filter word or whose submitter is matched by an active
\* unexpired ban.
C6_NoBlockedOrBannedRow ==
    [][\A p \in PostIds(posts') \ PostIds(posts) :
            ~HoldsBlockedWord(posts'[p]) /\ ~SubmitterBanned(posts'[p])]_vars

(***************************************************************************)
(* forum_votes, the trigger trg_update_vote_score and toggle_vote.  Under  *)
(* READ COMMITTED the SELECT of the existing vote and the statement chosen *)
(* from it see a snapshot each: a call is two steps, the read and the      *)
(* write.  The write acts on the rows as they are when it runs, and the    *)
(* row-level trigger receives those rows as OLD and NEW.                   *)
(***************************************************************************)
MaxSessions == 2

\* the row of forum_votes with this user and post, as a set of at most one row
VoteRows(vt, u, p) == { v \in vt : v.user_id = u /\ v.post_id = p }

\* the mutant: the UPDATE branch adds the new vote without taking back the old one
update_post_vote_score_keeps_old(ps, op, old, new) ==
    IF op = "INSERT" THEN [ps EXCEPT ![new.post_id].vote_score = @ + new.vote_type]
    ELSE IF op = "DELETE" THEN [ps EXCEPT ![old.post_id].vote_score = @ - old.vote_type]
    ELSE [ps EXCEPT ![new.post_id].vote_score = @ + new.vote_type]

\* update_post_vote_score(), the AFTER INSERT OR UPDATE OR DELETE row trigger
update_post_vote_score(ps, op, old, new) ==
    IF op = "INSERT" THEN [ps EXCEPT ![new.post_id].vote_score = @ + new.vote_type]
    ELSE IF op = "DELETE" THEN [ps EXCEPT ![old.post_id].vote_score = @ - old.vote_type]
    ELSE [ps EXCEPT ![new.post_id].vote_score = @ - old.vote_type + new.vote_type]

\* the mutant: auth.uid() is not looked at
toggle_vote_read_no_login(ps, vt, uid, p_post_id) ==
    IF p_post_id \notin PostIds(ps) THEN [error |-> "post_not_found", existing |-> 0]
    ELSE [error |-> "ok",
          existing |-> IF VoteRows(vt, uid, p_post_id) = {} THEN 0
                       ELSE (CHOOSE v \in VoteRows(vt, uid, p_post_id) : TRUE).vote_type]

\* toggle_vote up to the SELECT of the existing vote: the error it returns, or
\* "ok" with v_existing_vote (0 for NULL)
toggle_vote_read(ps, vt, uid, p_post_id) ==
    IF uid = 0 THEN [error |-> "login_required", existing |-> 0]
    ELSE IF p_post_id \notin PostIds(ps) THEN [error |-> "post_not_found", existing |-> 0]
    ELSE [error |-> "ok",
          existing |-> IF VoteRows(vt, uid, p_post_id) = {} THEN 0
                       ELSE (CHOOSE v \in VoteRows(vt, uid, p_post_id) : TRUE).vote_type]

\* toggle_vote with a DELETE in place of the UPDATE of its last branch
toggle_vote_write_switch_removes(ps, vt, uid, p_post_id, p_vote_type, v_existing_vote) ==
    LET rows == VoteRows(vt, uid, p_post_id)
        old  == CHOOSE v \in rows : TRUE
        new  == [user_id |-> uid, post_id |-> p_post_id, vote_type |-> p_vote_type]
    IN  IF v_existing_vote = 0
        THEN IF rows # {}
             THEN [aborted |-> TRUE, votes |-> vt, posts |-> ps, user_vote |-> 0]
             ELSE [aborted |-> FALSE, votes |-> vt \cup {new},
                   posts |-> update_post_vote_score(ps, "INSERT", new, new),
                   user_vote |-> p_vote_type]
        ELSE [aborted |-> FALSE, votes |-> vt \ rows,
              posts |-> IF rows = {} THEN ps ELSE update_post_vote_score(ps, "DELETE", old, old),
              user_vote |-> IF v_existing_vote = p_vote_type THEN 0 ELSE p_vote_type]

\* the INSERT, DELETE or UPDATE toggle_vote issues for v_existing_vote, run on
\* the rows as they are now, with the trigger; aborted is the unique violation
\* of UNIQUE(user_id, post_id)
toggle_vote_write(ps, vt, uid, p_post_id, p_vote_type, v_existing_vote) ==
    LET rows == VoteRows(vt, uid, p_post_id)
        old  == CHOOSE v \in rows : TRUE
        new  == [user_id |-> uid, post_id |-> p_post_id, vote_type |-> p_vote_type]
    IN  IF v_existing_vote = 0
        THEN IF rows # {}
             THEN [aborted |-> TRUE, votes |-> vt, posts |-> ps, user_vote |-> 0]
             ELSE [aborted |-> FALSE, votes |-> vt \cup {new},
                   posts |-> update_post_vote_score(ps, "INSERT", new, new),
                   user_vote |-> p_vote_type]
        ELSE IF v_existing_vote = p_vote_type
        THEN [aborted |-> FALSE, votes |-> vt \ rows,
              posts |-> IF rows = {} THEN ps ELSE update_post_vote_score(ps, "DELETE", old, old),
              user_vote |-> 0]
        ELSE [aborted |-> FALSE, votes |-> IF rows = {} THEN vt ELSE (vt \ rows) \cup {new},
              posts |-> IF rows = {} THEN ps ELSE update_post_vote_score(ps, "UPDATE", old, new),
              user_vote |-> p_vote_type]

\* a call of toggle_vote by auth.uid() = uid, up to the read of the existing vote
ToggleRead(uid, p_post_id, p_vote_type) ==
    /\ Len(vs) < MaxSessions
    /\ LET r == toggle_vote_read(posts, votes, uid, p_post_id)
       IN  IF r.error = "ok"
           THEN /\ vs' = Append(vs, [user_id |-> uid, post_id |-> p_post_id,
                                     vote_type |-> p_vote_type, existing |-> r.existing])
                /\ ret' = ret
           ELSE vs' = vs /\ Returns(Resp("toggle_vote", FALSE, r.error, 0, ""))
    /\ UNCHANGED <<posts, bans, identities, ledger, metrics, settings, now, fr, rs, observe, ev, hs, cr, votes>>

\* the rest of call i: the write, the read of the new score and the response
ToggleWrite(i) ==
    /\ i \in 1..Len(vs)
    /\ LET t == vs[i]
           w == toggle_vote_write(posts, votes, t.user_id, t.post_id, t.vote_type, t.existing)
       IN  /\ votes' = w.votes
           /\ posts' = w.posts
           /\ Returns(IF w.aborted THEN Resp("toggle_vote", FALSE, "unique_violation", 0, "")
                      ELSE Resp("toggle_vote", TRUE, "", w.posts[t.post_id].vote_score, ""))
    /\ vs' = [j \in 1..(Len(vs) - 1) |-> IF j < i THEN vs[j] ELSE vs[j + 1]]
    /\ UNCHANGED <<bans, identities, ledger, metrics, settings, now, fr, rs, observe, ev, hs, cr>>

\* the voters (0 is a caller who is not signed in) and the posts voted on
\* (9 is no post)
Voters == {0, 1, 2}

VotedPosts == {1, 2, 9}

VoteNext ==
    \/ \E u \in Voters, p \in VotedPosts, v \in {1, -1} : ToggleRead(u, p, v)
    \/ \E i \in 1..MaxSessions : ToggleWrite(i)

SpecVote == InitQuiet /\ [][VoteNext]_vars

RECURSIVE SumVotes(_)
\* the sum of vote_type over a set of forum_votes rows
SumVotes(rows) ==
    IF rows = {} THEN 0
    ELSE LET v == CHOOSE x \in rows : TRUE IN v.vote_type + SumVotes(rows \ {v})

\* C3: in every reachable state and for every post, vote_score equals the sum
\* of vote_type over the forum_votes rows of that post, for any sequence and
\* any interleaving of toggle_vote calls (two concurrent calls by one user on
\* one post included).
C3_ScoreIsSumOfVotes ==
    \A p \in PostIds(posts) :
        posts[p].vote_score = SumVotes({ v \in votes : v.post_id = p })

\* two calls by one user on one post ran concurrently, the second acting on a
\* vote the first had changed since it was read, and votes are cast on post 1
C3_Witness ==
    /\ \E v \in votes : v.post_id = 1 /\ v.user_id = 1 /\ v.vote_type = -1
    /\ \E v \in votes : v.post_id = 1 /\ v.user_id = 2
    /\ \E i \in 1..Len(vs) :
          /\ vs[i].user_id = 1 /\ vs[i].post_id = 1 /\ vs[i].existing = 1
          /\ vs[i].vote_type = 1
    /\ posts[1].vote_score # 0

\* C12: in every reachable state no post has a parent_id that names a post
\* with status 'deleted' or a post that does not exist, after any sequence of
\* submissions and moderations.
C12_ParentIsLivePost ==
    \A i \in PostIds(posts) :
        posts[i].parent_id # 0
            => /\ posts[i].parent_id \in PostIds(posts)
               /\ posts[posts[i].parent_id].status # "deleted"

\* C13: in every reachable state every post with a non-null parent_id has
\* thread_id equal to its parent's thread_id, after any sequence of
\* submissions and deletions.
C13_ThreadFollowsParent ==
    \A i \in PostIds(posts) :
        (posts[i].parent_id # 0 /\ posts[i].parent_id \in PostIds(posts))
            => posts[i].thread_id = posts[posts[i].parent_id].thread_id

(***************************************************************************)
(* Identities: concurrent registrations and posts made with an API key.    *)
(***************************************************************************)
IdentNames == {BotName, BotNamePadded, OtherName, ShortName}

IdentRegister == \E n \in IdentNames : RegisterCheck(n, "NULL")

IdentInsert == \E i \in 1..MaxRegs : RegisterInsert(i)

\* revoked_at: "NULL = active, set = revoked"; no function sets it, an
\* operator does with UPDATE forum_ai_identities SET revoked_at = NOW()
Revoke(i) ==
    /\ i \in 1..Len(identities)
    /\ identities[i].revoked_at < 0
    /\ identities' = [identities EXCEPT ![i].revoked_at = now]
    /\ Returns(Resp("revoke", TRUE, "", i, ""))
    /\ UNCHANGED <<posts, bans, votes, ledger, metrics, settings, now, fr, vs, rs, observe, ev, hs, cr>>

\* a key above Len(identities) was never issued
IdentKeys == 1..MaxIdentities

IdentWithKey ==
    \E k \in IdentKeys, c \in {GoodContent, PaddedShort, BlockContent} :
        AiSubmitWithKey(k, c, NullText, 0)

IdentRevoke == \E i \in 1..MaxIdentities : Revoke(i)

IdentNext ==
    \/ IdentRegister
    \/ IdentInsert
    \/ IdentWithKey
    \/ IdentRevoke

SpecIdent == Init /\ [][IdentNext]_vars

\* C10: in every reachable state no two non-revoked rows of
\* forum_ai_identities have display names that are equal ignoring case, for
\* any sequence or interleaving of register_forum_ai calls.
C10_ActiveNamesUnique ==
    \A i, j \in 1..Len(identities) :
        (i # j /\ identities[i].revoked_at < 0 /\ identities[j].revoked_at < 0)
            => Lower(identities[i].display_name) # Lower(identities[j].display_name)

KeyRevoked(k) ==
    \E i \in 1..Len(identities) :
        identities[i].api_key = k /\ identities[i].revoked_at >= 0

\* C11: for an identity whose revoked_at is set, ai_submit_with_key called
\* with that identity's raw API key fails with the invalid-or-revoked error,
\* persists no post and leaves the identity's post_count and timestamps
\* unchanged.
C11_RevokedKeyRejected ==
    [][\A k \in IdentKeys, c \in {GoodContent, PaddedShort, BlockContent} :
          (KeyRevoked(k) /\ AiSubmitWithKey(k, c, NullText, 0))
              => /\ ~ret'.success
                 /\ ret'.error = "invalid_key"
                 /\ posts' = posts
                 /\ identities' = identities]_vars

\* every issued key is revoked, the first identity posted while it was active,
\* and the last call was an ai_submit_with_key that was turned away
C11_Witness ==
    /\ Len(identities) = MaxIdentities
    /\ \A i \in 1..Len(identities) : identities[i].revoked_at >= 0
    /\ identities[1].post_count >= 1
    /\ ret.op = "ai_submit_with_key"
    /\ ret.error = "invalid_key"

(***************************************************************************)
(* The trigger evaluator check_ai_trigger, with record_ai_post and         *)
(* update_ai_setting.  Hours are whole; random() is a percentage.          *)
(***************************************************************************)
\* setting_value::INT and setting_value::NUMERIC for the values the settings
\* take, the NUMERIC random_chance as a percentage
SettingInt(v) ==
    CASE v = "0" -> 0 [] v = "1" -> 1 [] v = "2" -> 2 [] v = "3" -> 3 [] v = "4" -> 4
      [] v = "5" -> 5 [] v = "10" -> 10 [] v = "20" -> 20

SettingPercent(v) ==
    CASE v = "0.3" -> 30 [] v = "1.0" -> 100 [] v = "0" -> 0

\* the mutant: a 'trigger_check' entry counts as synthetic activity as well
IsAiPostEntry_any(e) == e.action_type \in {"post", "reply", "trigger_check"}

\* action_type IN ('post', 'reply')
IsAiPostEntry(e) == e.action_type \in {"post", "reply"}

\* COUNT(*) over the rows of forum_ai_activity in the set rows
CountRows(lg, rows) == BagCardinality([e \in rows |-> lg[e]])

\* SELECT MAX(created_at) ... WHERE action_type IN ('post', 'reply'); -1 for NULL
LastAiTime(lg) ==
    LET ts == { e.created_at : e \in { x \in BagToSet(lg) : IsAiPostEntry(x) } }
    IN  IF ts = {} THEN -1 ELSE CHOOSE t \in ts : \A u \in ts : u <= t

NeverHours == 999

DayHours == 24

WeekHours == 168

\* the mutant: the time since the last synthetic post is never looked at
HoursSinceAi_never(lg, at) == NeverHours

\* v_hours_since_ai
HoursSinceAi(lg, at) == IF LastAiTime(lg) < 0 THEN NeverHours ELSE at - LastAiTime(lg)

\* v_posts_since_ai: approved human posts created after the last synthetic activity
PostsSinceAi(ps, lg) ==
    Cardinality({ i \in PostIds(ps) :
        /\ (LastAiTime(lg) < 0 \/ ps[i].created_at > LastAiTime(lg))
        /\ ps[i].author_type = "human"
        /\ ps[i].status = "approved" })

\* the mutant: every row of the last 24 hours counts toward the daily cap
DailyAiCount_all_rows(lg, at) ==
    CountRows(lg, { e \in BagToSet(lg) : e.created_at > at - DayHours })

\* v_daily_ai_count
DailyAiCount(lg, at) ==
    CountRows(lg, { e \in BagToSet(lg) : IsAiPostEntry(e) /\ e.created_at > at - DayHours })

\* the mutant: the persona's daily limit is not looked at
AvailablePersonas_cooldown_only(lg, st, at) ==
    { p \in Personas :
        LET mine == { e \in BagToSet(lg) : e.persona_name = p /\ IsAiPostEntry(e) }
        IN  ~\E e \in mine :
                e.created_at > at - SettingInt(st.cooldown_per_persona_hours) }

\* v_available_personas: not on cooldown and under the persona's daily limit
AvailablePersonas(lg, st, at) ==
    { p \in Personas :
        LET mine == { e \in BagToSet(lg) : e.persona_name = p /\ IsAiPostEntry(e) }
        IN  /\ ~\E e \in mine :
                    e.created_at > at - SettingInt(st.cooldown_per_persona_hours)
            /\ CountRows(lg, { e \in mine : e.created_at > at - DayHours })
                    < SettingInt(st.max_posts_per_persona_day) }

\* the rows the target query may return: approved human posts of the last 7
\* days with no later synthetic post in their thread, the latest first
\* (rows with equal created_at in either order), LIMIT 1
TargetRows(ps, at) ==
    LET ok == { i \in PostIds(ps) :
                  /\ ps[i].status = "approved"
                  /\ ps[i].author_type = "human"
                  /\ ps[i].created_at > at - WeekHours
                  /\ ~\E r \in PostIds(ps) :
                        /\ ps[i].thread_id # 0
                        /\ ps[r].thread_id = ps[i].thread_id
                        /\ ps[r].author_type = "ai"
                        /\ ps[r].created_at > ps[i].created_at }
    IN  { i \in ok : \A j \in ok : ps[j].created_at <= ps[i].created_at }

\* v_target_post IS NOT NULL: a row value is NOT NULL only when every field
\* of it is non-null (moderated_at is null exactly when moderated_by is)
PostRowIsNotNull(row) ==
    /\ ~IsNullText(row.title)
    /\ row.user_id # 0
    /\ row.parent_id # 0
    /\ row.thread_id # 0
    /\ row.moderated_by # 0
    /\ row.ai_model # "NULL"
    /\ row.ai_session_id # "NULL"

TrigResp(triggered, reason, persona, target) ==
    [Resp("check_ai_trigger", FALSE, "", 0, "")
        EXCEPT !.triggered = triggered, !.reason = reason, !.persona = persona, !.target = target]

\* the first two statements of check_ai_trigger with the second left out
CountView_total_only(mt) == [mt EXCEPT !.page_views = @ + 1]

\* UPDATE forum_metrics SET metric_value = metric_value + 1 for 'page_views'
\* and for 'page_views_since_ai'
CountView(mt) == [mt EXCEPT !.page_views = @ + 1, !.page_views_since_ai = @ + 1]

\* the reset of check_ai_trigger extended to the total of page views
ResetCounters_every_counter(mt) ==
    [mt EXCEPT !.page_views = 0, !.page_views_since_ai = 0, !.posts_since_ai = 0]

\* UPDATE forum_metrics SET metric_value = 0 for 'page_views_since_ai' and
\* for 'posts_since_ai'
ResetCounters(mt) == [mt EXCEPT !.page_views_since_ai = 0, !.posts_since_ai = 0]

\* check_ai_trigger() when random() returns v_random for the chance check,
\* the persona drawn is chosen and the target query returns row v_target (0: no row)
check_ai_trigger(ps, lg, mt, st, at, v_random, chosen, v_target) ==
    LET counted == CountView(mt)
        v_should_trigger ==
            /\ HoursSinceAi(lg, at) >= SettingInt(st.min_time_between_ai_hours)
            /\ \/ PostsSinceAi(ps, lg) >= SettingInt(st.posts_threshold)
               \/ counted.page_views_since_ai >= SettingInt(st.page_views_threshold)
            /\ v_random <= SettingPercent(st.random_chance)
        quiet(reason) == [ledger |-> lg, metrics |-> counted,
                          ret |-> TrigResp(FALSE, reason, "", 0)]
    IN  IF st.trigger_enabled # "true" THEN quiet("disabled")
        ELSE IF DailyAiCount(lg, at) >= SettingInt(st.max_ai_posts_per_day) THEN quiet("daily_limit")
        ELSE IF ~v_should_trigger THEN quiet("conditions_not_met")
        ELSE IF AvailablePersonas(lg, st, at) = {} THEN quiet("no_available_personas")
        ELSE [ledger |-> lg (+) SetToBag({[persona_name |-> chosen, action_type |-> "trigger_check",
                                           post_id |-> 0, created_at |-> at]}),
              metrics |-> ResetCounters(counted),
              ret |-> TrigResp(TRUE, "", chosen,
                               IF v_target # 0 /\ PostRowIsNotNull(ps[v_target])
                               THEN v_target ELSE 0)]

\* update_ai_setting(p_name, p_value) called by auth.uid() = uid
update_ai_setting(st, uid, name, value) ==
    IF ~IsAdmin(uid)
    THEN [settings |-> st, ret |-> Resp("update_ai_setting", FALSE, "admin_required", 0, "")]
    ELSE [settings |-> IF name \in DOMAIN st THEN [st EXCEPT ![name] = value] ELSE st,
          ret |-> Resp("update_ai_setting", TRUE, "", 0, "")]

\* the page views counted
MaxViews == 2

\* the rows of forum_ai_activity
MaxLedger == 7

CheckAiTrigger(v_random) ==
    /\ metrics.page_views < MaxViews
    /\ BagCardinality(ledger) < MaxLedger
    /\ \E chosen \in (IF AvailablePersonas(ledger, settings, now) = {} THEN {""}
                      ELSE AvailablePersonas(ledger, settings, now)),
          v_target \in (IF TargetRows(posts, now) = {} THEN {0} ELSE TargetRows(posts, now)) :
          LET r == check_ai_trigger(posts, ledger, metrics, settings, now, v_random,
                                    chosen, v_target)
          IN  ledger' = r.ledger /\ metrics' = r.metrics /\ Returns(r.ret)
    /\ UNCHANGED <<posts, bans, votes, identities, settings, now, fr, vs, rs, observe, ev, hs, cr>>

RecordAiPost(persona, post_id, action_type) ==
    /\ BagCardinality(ledger) < MaxLedger
    /\ ledger' = record_ai_post(ledger, persona, post_id, action_type, now)
    /\ Returns(Resp("record_ai_post", TRUE, "", 0, ""))
    /\ UNCHANGED <<posts, bans, votes, identities, metrics, settings, now, fr, vs, rs, observe, ev, hs, cr>>

UpdateAiSetting(uid, name, value) ==
    /\ LET r == update_ai_setting(settings, uid, name, value)
       IN  settings' = r.settings /\ Returns(r.ret)
    /\ UNCHANGED <<posts, bans, votes, identities, ledger, metrics, now, fr, vs, rs, observe, ev, hs, cr>>

\* the order in which the personas make their recorded replies
Roster == <<"Alex", "Maya", "Luna", "Sam", "Zen", "Chris">>

\* in the first hour the next persona of the roster with no reply recorded yet
\* records one; Chris records none
TrigRecord ==
    \E k \in 1..5 :
        /\ now = 0
        /\ \A e \in BagToSet(ledger) : IsAiPostEntry(e) => e.persona_name # Roster[k]
        /\ \A j \in 1..(k - 1) : \E e \in BagToSet(ledger) :
                IsAiPostEntry(e) /\ e.persona_name = Roster[j]
        /\ RecordAiPost(Roster[k], 0, "reply")

TrigView == \E v_random \in {20, 70} : CheckAiTrigger(v_random)

\* the administrator changes three settings; a plain user tries one
TrigSetting ==
    \/ \E nv \in {<<"random_chance", "1.0">>, <<"posts_threshold", "2">>,
                   <<"max_ai_posts_per_day", "5">>} :
            UpdateAiSetting(1, nv[1], nv[2])
    \/ UpdateAiSetting(3, "random_chance", "1.0")

TrigHuman == HumanSubmit(GoodContent, GoodTitle, 0)

\* the clock of the trigger evaluator runs in steps of three hours and stops here
TrigHorizon == 3

TrigTick == now + 3 <= TrigHorizon /\ Tick(3)

TrigNext ==
    \/ TrigView
    \/ TrigRecord
    \/ TrigSetting
    \/ TrigHuman
    \/ TrigTick

SpecTrig == Init /\ [][TrigNext]_vars

(***************************************************************************)
(* Claims about the trigger evaluator.                                     *)
(***************************************************************************)
\* the ledger entries of kind 'post' or 'reply'
PostReplyEntries == { e \in BagToSet(ledger) : e.action_type = "post" \/ e.action_type = "reply" }

\* the approved human posts recorded
ApprovedHumanPosts ==
    { i \in PostIds(posts) : posts[i].author_type = "human" /\ posts[i].status = "approved" }

\* C8: with the trigger enabled, random_chance = 1.0, no 'post'/'reply' ledger
\* entry in existence, the daily cap not reached and at least posts_threshold
\* approved human posts recorded, check_ai_trigger returns triggered = true
\* with a persona of the roster and a non-null target_post, the most recently
\* created qualifying human post.
C8_TriggerNamesLatestHumanPost ==
    [][\A v \in {20, 70} :
          (/\ settings.trigger_enabled = "true"
           /\ settings.random_chance = "1.0"
           /\ PostReplyEntries = {}
           /\ SettingInt(settings.max_ai_posts_per_day) > 0
           /\ Cardinality(ApprovedHumanPosts) >= SettingInt(settings.posts_threshold)
           /\ CheckAiTrigger(v))
          => (/\ ret'.triggered
              /\ ret'.persona \in Personas
              /\ ret'.target # 0
              /\ ret'.target \in TargetRows(posts, now))]_vars

\* persona p has a 'post' or 'reply' entry within the cooldown window
OnCooldown(p) ==
    \E e \in PostReplyEntries :
        /\ e.persona_name = p
        /\ e.created_at > now - SettingInt(settings.cooldown_per_persona_hours)

\* the 'post'/'reply' entries of the last 24 hours, counted with multiplicity
PostReplyToday ==
    LET today == { e \in PostReplyEntries : e.created_at > now - DayHours }
    IN  BagCardinality([e \in today |-> ledger[e]])

\* p is the one eligible persona: all the others are on cooldown
OnlyEligible(p) ==
    /\ ~OnCooldown(p)
    /\ \A q \in Personas \ {p} : OnCooldown(q)

\* the conditions of a trigger other than the daily cap: enabled, probability
\* 1.0, the minimum time since the last synthetic post elapsed and the posts
\* threshold reached
GateHolds ==
    /\ settings.trigger_enabled = "true"
    /\ settings.random_chance = "1.0"
    /\ \A e \in PostReplyEntries :
            now - e.created_at >= SettingInt(settings.min_time_between_ai_hours)
    /\ Cardinality({ i \in ApprovedHumanPosts :
                        \A e \in PostReplyEntries : posts[i].created_at > e.created_at })
            >= SettingInt(settings.posts_threshold)

\* C9 as stated: with random_chance = 1.0 and exactly one persona eligible, a
\* call of check_ai_trigger whose trigger conditions hold, and so the call made
\* in immediate succession, returns triggered = true with that persona and
\* does not return daily_limit whenever the global daily cap is above 1.
C9_TriggersWheneverCapAboveOne ==
    [][\A p \in Personas, v \in {20, 70} :
          (/\ GateHolds
           /\ OnlyEligible(p)
           /\ SettingInt(settings.max_ai_posts_per_day) > 1
           /\ CheckAiTrigger(v))
          => (ret'.triggered /\ ret'.persona = p /\ ret'.reason # "daily_limit")]_vars

\* C9 amended: with random_chance = 1.0, exactly one persona eligible, the
\* trigger conditions holding through the posts threshold and fewer
\* 'post'/'reply' entries in the last 24 hours than the global daily cap, a
\* call of check_ai_trigger returns triggered = true with that persona, writes
\* a 'trigger_check' entry for it and leaves all of these conditions and the
\* count of 'post'/'reply' entries as they were: the call made in immediate
\* succession returns the same persona, and the 'trigger_check' entry counts
\* neither toward the daily cap nor toward the cooldown.
C9_TwoCallsSamePersona ==
    [][\A p \in Personas, v \in {20, 70} :
          (/\ GateHolds
           /\ OnlyEligible(p)
           /\ PostReplyToday < SettingInt(settings.max_ai_posts_per_day)
           /\ CheckAiTrigger(v))
          => (/\ ret'.triggered
              /\ ret'.persona = p
              /\ [persona_name |-> p, action_type |-> "trigger_check", post_id |-> 0,
                  created_at |-> now] \in BagToSet(ledger')
              /\ GateHolds'
              /\ OnlyEligible(p)'
              /\ PostReplyToday' = PostReplyToday)]_vars

\* two calls in immediate succession have returned Chris, the one persona not
\* on cooldown: two 'trigger_check' entries of this hour are in the ledger
C9_Witness ==
    /\ ret.op = "check_ai_trigger" /\ ret.triggered /\ ret.persona = "Chris"
    /\ OnlyEligible("Chris")
    /\ LET e == [persona_name |-> "Chris", action_type |-> "trigger_check", post_id |-> 0,
                 created_at |-> now]
       IN  e \in BagToSet(ledger) /\ ledger[e] >= 2

(***************************************************************************)
(* The evaluator under lowered limits: the administrator sets thresholds   *)
(* and caps of 1 before the first page view, every persona of the roster   *)
(* records a reply, and the clock moves by one cooldown period.            *)
(***************************************************************************)
AvailRecord ==
    \E k \in 1..6 :
        /\ now = 0
        /\ \A e \in BagToSet(ledger) : IsAiPostEntry(e) => e.persona_name # Roster[k]
        /\ \A j \in 1..(k - 1) : \E e \in BagToSet(ledger) :
                IsAiPostEntry(e) /\ e.persona_name = Roster[j]
        /\ RecordAiPost(Roster[k], 0, "reply")

AvailView == \E v_random \in {20, 70} : CheckAiTrigger(v_random)

\* the settings the administrator lowers to 1, in this order
AvailSettings == <<"posts_threshold", "max_posts_per_persona_day", "page_views_threshold",
                   "max_ai_posts_per_day">>

AvailSetting ==
    /\ metrics.page_views = 0
    /\ ledger = EmptyBag
    /\ Len(posts) = 3
    /\ now = 0
    /\ \E k \in 1..4 :
            /\ settings[AvailSettings[k]] # "1"
            /\ \A j \in 1..(k - 1) : settings[AvailSettings[j]] = "1"
            /\ UpdateAiSetting(1, AvailSettings[k], "1")

AvailHuman == Len(posts) = 3 /\ HumanSubmit(GoodContent, GoodTitle, 0)

\* the clock of this specification stops here
AvailHorizon == 4

AvailTick == now + 4 <= AvailHorizon /\ Tick(4)

AvailNext ==
    \/ AvailRecord
    \/ AvailView
    \/ AvailSetting
    \/ AvailHuman
    \/ AvailTick

SpecAvail == Init /\ [][AvailNext]_vars

\* the approved human posts created after every 'post'/'reply' ledger entry
HumanPostsSinceAi ==
    { i \in ApprovedHumanPosts : \A e \in PostReplyEntries : posts[i].created_at > e.created_at }

\* the time elapsed since the last 'post'/'reply' entry is at least
\* min_time_between_ai_hours
MinTimeElapsed ==
    \A e \in PostReplyEntries :
        now - e.created_at >= SettingInt(settings.min_time_between_ai_hours)

\* the 'post'/'reply' entries of persona p in the last 24 hours
PersonaToday(p) ==
    LET mine == { e \in PostReplyEntries : e.persona_name = p /\ e.created_at > now - DayHours }
    IN  BagCardinality([e \in mine |-> ledger[e]])

\* p is off cooldown and under the persona's daily limit
Eligible(p) ==
    ~OnCooldown(p) /\ PersonaToday(p) < SettingInt(settings.max_posts_per_persona_day)

\* C16: whenever the trigger is enabled and the count of 'post'/'reply'
\* ledger entries of the last 24 hours is at least max_ai_posts_per_day,
\* check_ai_trigger returns reason daily_limit, whatever the elapsed hours,
\* the thresholds and the probability; 'trigger_check' entries are not
\* counted, so daily_limit is returned in no other case.
C16_DailyLimitFirst ==
    [][\A v \in {20, 70} :
          (settings.trigger_enabled = "true" /\ CheckAiTrigger(v))
              => /\ (PostReplyToday >= SettingInt(settings.max_ai_posts_per_day))
                        <=> (ret'.reason = "daily_limit")
                 /\ ret'.reason = "daily_limit" => ~ret'.triggered]_vars

\* the cap of 1 is reached by one reply and the evaluator has answered
\* daily_limit although the views threshold is met and a 'trigger_check'
\* entry is in the ledger besides
C16_Witness ==
    /\ ret.op = "check_ai_trigger" /\ ret.reason = "daily_limit"
    /\ settings.max_ai_posts_per_day = "1"
    /\ settings.page_views_threshold = "1"
    /\ settings.posts_threshold = "1"
    /\ ApprovedHumanPosts # {}
    /\ PostReplyToday = 1
    /\ \E e \in BagToSet(ledger) : e.action_type = "trigger_check"

\* C17: check_ai_trigger returns triggered = true only if the hours since the
\* last 'post'/'reply' ledger entry are at least min_time_between_ai_hours and
\* the approved human posts created since that entry number at least
\* posts_threshold or page_views_since_ai, this page view counted, is at
\* least page_views_threshold.
C17_TriggerOnlyThroughGate ==
    [][\A v \in {20, 70} :
          (CheckAiTrigger(v) /\ ret'.triggered)
              => /\ MinTimeElapsed
                 /\ \/ Cardinality(HumanPostsSinceAi) >= SettingInt(settings.posts_threshold)
                    \/ metrics.page_views_since_ai + 1
                            >= SettingInt(settings.page_views_threshold)]_vars

\* a trigger through the posts threshold alone, four hours after the last reply
C17_Witness ==
    /\ ret.op = "check_ai_trigger" /\ ret.triggered
    /\ PostReplyEntries # {}
    /\ now = 4
    /\ settings.page_views_threshold = "20"
    /\ settings.posts_threshold = "1"

Qualifying ==
    { i \in ApprovedHumanPosts :
        /\ posts[i].created_at > now - WeekHours
        /\ \A r \in PostIds(posts) :
              (posts[r].author_type = "ai" /\ posts[r].thread_id = posts[i].thread_id)
                  => posts[r].created_at <= posts[i].created_at }

\* C19: when check_ai_trigger returns triggered = true, target_post is the
\* most recently created qualifying post, and it is null if and only if no
\* post qualifies.
C19_TargetIsLatestQualifying ==
    [][\A v \in {20, 70} :
          (CheckAiTrigger(v) /\ ret'.triggered)
              => /\ (ret'.target = 0) <=> (Qualifying = {})
                 /\ ret'.target # 0
                        => /\ ret'.target \in Qualifying
                           /\ \A j \in Qualifying :
                                 posts[j].created_at <= posts[ret'.target].created_at]_vars

(***************************************************************************)
(* checkAndRespond of the ai-responder function: the rpc check_ai_trigger, *)
(* the text generation, the rpc ai_submit_post and the rpc record_ai_post  *)
(* are separate round trips; runs of the handler interleave between them.  *)
(***************************************************************************)
MaxResponseLen == 500

\* response.trim(), cut to 497 characters and '...' when longer than 500
CleanResponse(text) ==
    IF Len(Trim(text)) > MaxResponseLen
    THEN SubSeq(Trim(text), 1, MaxResponseLen - 3) \o Dots
    ELSE Trim(text)

\* the body checkAndRespond answers with; triggered is triggerResult.triggered
\* of the run, success is the field responded
RunResp(responded, triggered, reason, persona, target, post_id, status) ==
    [Resp("checkAndRespond", responded, reason, post_id, status)
        EXCEPT !.triggered = triggered, !.reason = reason, !.persona = persona,
               !.target = target]

\* the sequence without its i-th element
RemoveAt(seq, i) == SubSeq(seq, 1, i - 1) \o SubSeq(seq, i + 1, Len(seq))

\* the handlers in flight at once
MaxRuns == 2

\* the posts the pipelines are exercised with, the seeded ones included
MaxPipePosts == 6

\* rpc('check_ai_trigger'), the two early returns and the generation of the
\* response: generated is the text Pollinations returns, NULL when the fetch
\* fails and a template is drawn instead
CheckAndRespond(v_random, generated) ==
    /\ metrics.page_views < MaxViews
    /\ BagCardinality(ledger) < MaxLedger
    /\ Len(cr) < MaxRuns
    /\ \E chosen \in (IF AvailablePersonas(ledger, settings, now) = {} THEN {""}
                      ELSE AvailablePersonas(ledger, settings, now)),
          v_target \in (IF TargetRows(posts, now) = {} THEN {0} ELSE TargetRows(posts, now)) :
          LET r == check_ai_trigger(posts, ledger, metrics, settings, now, v_random,
                                    chosen, v_target)
          IN  /\ ledger' = r.ledger
              /\ metrics' = r.metrics
              /\ IF ~r.ret.triggered
                 THEN /\ cr' = cr
                      /\ Returns(RunResp(FALSE, FALSE, r.ret.reason, "", 0, 0, ""))
                 ELSE IF r.ret.target = 0
                 THEN /\ cr' = cr
                      /\ Returns(RunResp(FALSE, TRUE, "no_target_post", r.ret.persona, 0, 0, ""))
                 ELSE \E text \in (IF IsNullText(generated) THEN Templates(r.ret.persona)
                                   ELSE {CleanResponse(generated)}) :
                         /\ cr' = Append(cr, [pc |-> "submit", persona |-> r.ret.persona,
                                              target |-> r.ret.target, content |-> text,
                                              new_id |-> 0, status |-> ""])
                         /\ ret' = ret
    /\ UNCHANGED <<posts, bans, votes, identities, settings, now, fr, vs, rs, observe, ev, hs>>

\* rpc('ai_submit_post', {p_content: response, p_title: null, p_parent_id:
\* targetPost.id, ...}); without an id in the result the run answers at once
RunSubmit(i) ==
    /\ i \in 1..Len(cr)
    /\ cr[i].pc = "submit"
    /\ Len(posts) < MaxPipePosts
    /\ \E v_ban_check \in check_ban_status(bans, 0, "NULL", "auto", now) :
          LET r == ai_submit_post(posts, v_ban_check, cr[i].content, NullText,
                                  cr[i].target, "pollinations-ai", "auto", now)
          IN  /\ posts' = r.posts
              /\ IF r.ret.id # 0
                 THEN /\ cr' = [cr EXCEPT ![i].pc = "record", ![i].new_id = r.ret.id,
                                          ![i].status = r.ret.status]
                      /\ ret' = ret
                 ELSE /\ cr' = RemoveAt(cr, i)
                      /\ Returns(RunResp(TRUE, TRUE, "", cr[i].persona, cr[i].target,
                                         0, r.ret.status))
    /\ UNCHANGED <<bans, votes, identities, ledger, metrics, settings, now, fr, vs, rs, observe, ev, hs>>

\* rpc('record_ai_post', {p_persona_name: persona, p_post_id: postResult.id,
\* p_action_type: 'reply'}) and the response
RunRecord(i) ==
    /\ i \in 1..Len(cr)
    /\ cr[i].pc = "record"
    /\ ledger' = record_ai_post(ledger, cr[i].persona, cr[i].new_id, "reply", now)
    /\ cr' = RemoveAt(cr, i)
    /\ Returns(RunResp(TRUE, TRUE, "", cr[i].persona, cr[i].target, cr[i].new_id,
                       cr[i].status))
    /\ UNCHANGED <<posts, bans, votes, identities, metrics, settings, now, fr, vs, rs, observe, ev, hs>>

\* a signed-in user's reply made with create_forum_post, naming a client model
PipeCreate ==
    /\ Len(posts) = 3
    /\ CreateForumPost(3, GoodTitle, GoodContent, 1, "human", "gpt", "s1")

PipeHuman == Len(posts) = 3 /\ HumanSubmit(GoodContent, GoodTitle, 0)

PipeModerate == Len(posts) >= 4 /\ posts[4].moderated_by = 0 /\ Moderate(2, 4, "approve")

\* the administrator sets the thresholds before any evaluation has run
PipeSetting ==
    /\ ledger = EmptyBag
    /\ metrics.page_views = 0
    /\ \E nv \in {<<"posts_threshold", "1">>, <<"max_ai_posts_per_day", "1">>} :
            settings[nv[1]] # nv[2] /\ UpdateAiSetting(1, nv[1], nv[2])

PipeCheck ==
    \E v_random \in {20, 70}, g \in {GoodContent, PaddedShort, NullText} :
        CheckAndRespond(v_random, g)

PipeSubmit == \E i \in 1..MaxRuns : RunSubmit(i)

PipeRecord == \E i \in 1..MaxRuns : RunRecord(i)

\* the clock of the pipelines stops here
PipeHorizon == 1

PipeTick == now < PipeHorizon /\ Tick(1)

PipeNext ==
    \/ PipeCreate
    \/ PipeHuman
    \/ PipeModerate
    \/ PipeSetting
    \/ PipeCheck
    \/ PipeSubmit
    \/ PipeRecord
    \/ PipeTick

SpecPipe == Init /\ [][PipeNext]_vars

\* C14: across any interleaving of check_ai_trigger evaluations and the
\* checkAndRespond pipelines they start, a persona never has two 'post' or
\* 'reply' ledger entries less than cooldown_per_persona_hours apart.
C14_PersonaCooldownAcrossRuns ==
    \A e1, e2 \in PostReplyEntries :
        e1.persona_name = e2.persona_name
            => \/ e1 = e2 /\ ledger[e1] = 1
               \/ e1.created_at - e2.created_at >= SettingInt(settings.cooldown_per_persona_hours)
               \/ e2.created_at - e1.created_at >= SettingInt(settings.cooldown_per_persona_hours)

\* C15: under any interleaving of checkAndRespond pipelines, the number of
\* 'post'/'reply' ledger entries created within any 24-hour window never
\* exceeds max_ai_posts_per_day.
C15_DailyCapAcrossRuns ==
    \A t \in 0..MaxNow :
        CountRows(ledger, { e \in PostReplyEntries :
                              e.created_at > t - DayHours /\ e.created_at <= t })
            <= SettingInt(settings.max_ai_posts_per_day)

\* C20: every checkAndRespond run in which check_ai_trigger returned
\* triggered = true goes on to submit content through ai_submit_post; the
\* run never ends with responded = false after the trigger has fired.
C20_TriggeredRunResponds ==
    (ret.op = "checkAndRespond" /\ ret.triggered) => ret.success

(***************************************************************************)
(* Claims about the lifecycle status of new rows and the parent checks.    *)
(***************************************************************************)
\* the row was inserted for a trusted identity by ai_submit_with_key
ByTrustedIdentity(row) ==
    \E i \in 1..Len(identities) :
        identities[i].is_trusted /\ row.ai_session_id = ToString(identities[i].id)

\* C21: every post with author_type 'ai' is created with status 'pending',
\* except a post submitted through ai_submit_with_key by an identity whose
\* is_trusted flag is set, which is created 'approved'; on every path that
\* creates ai posts, forceRespond included.
C21_AiPostsStartPending ==
    [][\A i \in PostIds(posts') :
          (i \notin PostIds(posts) /\ posts'[i].author_type = "ai")
              => IF ByTrustedIdentity(posts'[i])
                 THEN posts'[i].status = "approved"
                 ELSE posts'[i].status = "pending"]_vars

\* C22: a reply submission whose parent_id names a post that does not exist
\* or whose status is not 'approved' persists nothing, on every submission
\* path: a reply is inserted only under a parent that is approved.
C22_ReplyNeedsApprovedParent ==
    [][\A i \in PostIds(posts') :
          (i \notin PostIds(posts) /\ posts'[i].parent_id # 0)
              => /\ posts'[i].parent_id \in PostIds(posts)
                 /\ posts[posts'[i].parent_id].status = "approved"]_vars

\* C23: no read interleaved with a top-level submission observes a persisted
\* root post whose thread_id is null: in every committed state each post
\* without a parent has a thread_id.
C23_RootHasThreadId ==
    \A i \in PostIds(posts) : posts[i].parent_id = 0 => posts[i].thread_id # 0

(***************************************************************************)
(* forceRespond and checkAndRespond when the rpc record_ai_post fails: the *)
(* client returns the error in its result, which neither handler reads.    *)
(***************************************************************************)
\* await adminSupabase.rpc('record_ai_post', ...) returning {error}, and the
\* response of forceRespond all the same
ForceRecordFails ==
    /\ fr.pc = "record"
    /\ Returns([Resp("forceRespond", TRUE, "", fr.new_id, "approved")
                    EXCEPT !.persona = fr.persona, !.target = fr.target])
    /\ fr' = FrIdle
    /\ UNCHANGED <<posts, bans, votes, identities, ledger, metrics, settings, now, vs, rs, observe, ev, hs, cr>>

\* the same in checkAndRespond
RunRecordFails(i) ==
    /\ i \in 1..Len(cr)
    /\ cr[i].pc = "record"
    /\ cr' = RemoveAt(cr, i)
    /\ Returns(RunResp(TRUE, TRUE, "", cr[i].persona, cr[i].target, cr[i].new_id,
                       cr[i].status))
    /\ UNCHANGED <<posts, bans, votes, identities, ledger, metrics, settings, now, fr, vs, rs, observe, ev, hs>>

FailRunRecordFails == \E i \in 1..MaxRuns : RunRecordFails(i)

\* the administrator lowers the posts threshold before the first evaluation
FailSetting ==
    /\ ledger = EmptyBag
    /\ metrics.page_views = 0
    /\ settings.posts_threshold # "1"
    /\ UpdateAiSetting(1, "posts_threshold", "1")

FailCheck == CheckAndRespond(20, GoodContent)

FailForceSelect == \E r \in BOOLEAN : ForceSelect("Alex", 1, r, GoodContent)

FailNext ==
    \/ PipeCreate
    \/ PipeModerate
    \/ FailSetting
    \/ FailCheck
    \/ PipeSubmit
    \/ PipeRecord
    \/ FailRunRecordFails
    \/ FailForceSelect
    \/ ForceInsert
    \/ ForcePatch
    \/ ForceRecord
    \/ ForceRecordFails

SpecFail == InitQuiet /\ [][FailNext]_vars

\* C24: at every state in which no posting pipeline is in flight, every ai
\* post created by checkAndRespond or forceRespond has a 'post'/'reply'
\* ledger entry referencing it.
C24_PostedMeansRecorded ==
    (fr.pc = "idle" /\ cr = <<>>)
        => \A i \in PostIds(posts) :
              posts[i].ai_session_id \in {"force", "auto"}
                  => \E e \in PostReplyEntries : e.post_id = i

(***************************************************************************)
(* human_submit_post racing with moderation.  The function is VOLATILE     *)
(* PL/pgSQL under READ COMMITTED: its SELECT of the parent and its INSERT  *)
(* are two statements with a snapshot each, and the INSERT's foreign-key   *)
(* lock on the parent row does not conflict with an UPDATE of its status.  *)
(* The transaction is two steps, the checks and the write.                 *)
(***************************************************************************)
\* the content validation and the SELECT of the parent's thread
human_submit_read(ps, content, parent) ==
    LET v_thread_id == IF parent # 0 THEN ParentThread(ps, parent, TRUE) ELSE 0
    IN  IF ContentTooShort(content) THEN [error |-> "too_short", thread_id |-> 0]
        ELSE IF parent # 0 /\ v_thread_id = 0
        THEN [error |-> "parent_not_found", thread_id |-> 0]
        ELSE [error |-> "ok", thread_id |-> v_thread_id]

\* the INSERT and, for a top-level post, the UPDATE of thread_id
human_submit_write(ps, h, at) ==
    InsertAndPatch(ps, NewPost(ps, h.title, h.content, 0, "human", h.parent_id,
                               h.thread_id, "approved", "NULL", "NULL", at))

\* the human_submit_post transactions in flight at once
MaxSubmits == 2

HumanRead(content, title, parent) ==
    /\ Len(hs) < MaxSubmits
    /\ LET r == human_submit_read(posts, content, parent)
       IN  IF r.error = "ok"
           THEN /\ hs' = Append(hs, [content |-> content, title |-> title,
                                     parent_id |-> parent, thread_id |-> r.thread_id])
                /\ ret' = ret
           ELSE hs' = hs /\ Returns(Resp("human_submit_post", FALSE, r.error, 0, ""))
    /\ UNCHANGED <<posts, bans, votes, identities, ledger, metrics, settings, now, fr, vs, rs, observe, ev, cr>>

HumanWrite(i) ==
    /\ i \in 1..Len(hs)
    /\ Room
    /\ posts' = human_submit_write(posts, hs[i], now)
    /\ Returns(Resp("human_submit_post", TRUE, "", Len(posts) + 1, "approved"))
    /\ hs' = RemoveAt(hs, i)
    /\ UNCHANGED <<bans, votes, identities, ledger, metrics, settings, now, fr, vs, rs, observe, ev, cr>>

RaceRead ==
    \E c \in {GoodContent, PaddedShort}, p \in {0} \cup TreeTargets :
        HumanRead(c, NullText, p)

RaceWrite == \E i \in 1..MaxSubmits : HumanWrite(i)

RaceNext ==
    \/ RaceRead
    \/ RaceWrite
    \/ TreeModerate

SpecRace == InitQuiet /\ [][RaceNext]_vars

\* C25: under any interleaving of a reply submission to post P with
\* moderate_forum_post(delete) on P, no committed state contains P with
\* status 'deleted' together with a post whose parent_id is P.
C25_DeletedHasNoChildren ==
    \A p \in PostIds(posts) :
        posts[p].status = "deleted"
            => ~\E c \in PostIds(posts) : posts[c].parent_id = p

(***************************************************************************)
(* get_forum_posts as 005_nested_replies.sql leaves it: the thread view    *)
(* and the root listing with the replies nested under each root.           *)
(***************************************************************************)
\* the rows of the thread view
ThreadView(ps, p_thread_id) ==
    { i \in PostIds(ps) :
        /\ (ps[i].id = p_thread_id \/ ps[i].thread_id = p_thread_id)
        /\ ps[i].status = "approved" }

\* the approved top-level posts
ApprovedRoots(ps) == { i \in PostIds(ps) : ps[i].parent_id = 0 /\ ps[i].status = "approved" }

\* the pages ORDER BY created_at ASC LIMIT p_limit OFFSET p_offset may cut out
\* of the set rows: rows with equal created_at come in either order
Pages(ps, rows, p_limit, p_offset) ==
    { page \in SUBSET rows :
        \E skipped \in SUBSET (rows \ page) :
            /\ Cardinality(skipped) = (IF p_offset < Cardinality(rows) THEN p_offset
                                       ELSE Cardinality(rows))
            /\ Cardinality(page) = (IF p_limit < Cardinality(rows) - Cardinality(skipped)
                                    THEN p_limit
                                    ELSE Cardinality(rows) - Cardinality(skipped))
            /\ \A a \in skipped, b \in rows \ skipped : ps[a].created_at <= ps[b].created_at
            /\ \A a \in page, b \in rows \ (skipped \cup page) :
                  ps[a].created_at <= ps[b].created_at }

\* the mutant: the nested replies are not filtered by status
NestedReplies_any_status(ps, root) ==
    { r \in PostIds(ps) : ps[r].thread_id = root /\ ps[r].parent_id # 0 }

\* the replies nested under a root of the listing
NestedReplies(ps, root) ==
    { r \in PostIds(ps) :
        ps[r].thread_id = root /\ ps[r].parent_id # 0 /\ ps[r].status = "approved" }

\* get_forum_posts(p_thread_id, p_limit, p_offset): the results it may return,
\* each the ids of the posts listed and of the replies nested under them
get_forum_posts(ps, p_thread_id, p_limit, p_offset) ==
    IF p_thread_id # 0
    THEN { [listed |-> ThreadView(ps, p_thread_id), replies |-> {}] }
    ELSE { [listed |-> page,
            replies |-> UNION { NestedReplies(ps, root) : root \in page }] :
           page \in Pages(ps, ApprovedRoots(ps), p_limit, p_offset) }

\* the response of getForumPosts
ReadResp(rows) == [Resp("get_forum_posts", TRUE, "", 0, "") EXCEPT !.target = rows]

GetForumPosts(p_thread_id, p_limit, p_offset) ==
    /\ \E rows \in get_forum_posts(posts, p_thread_id, p_limit, p_offset) :
          Returns(ReadResp(rows))
    /\ UNCHANGED <<posts, bans, votes, identities, ledger, metrics, settings, now, fr, vs, rs, observe, ev, hs, cr>>

DefaultLimit == 50

ReadInputs == {<<0, DefaultLimit, 0>>, <<0, 1, 1>>, <<1, DefaultLimit, 0>>}

ReadView == \E a \in ReadInputs : GetForumPosts(a[1], a[2], a[3])

ReadHuman == \E p \in {0, 1} : HumanSubmit(GoodContent, GoodTitle, p)

ReadAi == AiSubmitPost(GoodContent, NullText, 1, "NULL", "s1")

\* a moderator rejects or deletes a post made after the seeded ones
ReadModerate ==
    \E p \in 4..Len(posts), a \in {"reject", "delete"} :
        posts[p].status \in {"approved", "pending"} /\ Moderate(2, p, a)

\* callers without the moderator role: nobody signed in (0), the plain user 3
\* and a user 4 with no profiles row
Unprivileged == {0, 3, 4}

ReadModerateDenied ==
    \E uid \in Unprivileged, p \in {1, 4}, a \in {"approve", "delete"} : Moderate(uid, p, a)

ReadNext ==
    \/ ReadView
    \/ ReadHuman
    \/ ReadAi
    \/ ReadModerate
    \/ ReadModerateDenied

SpecRead == Init /\ [][ReadNext]_vars

\* C26: get_forum_posts, in the root listing, in the nested replies and in
\* the thread view, never returns a post whose status is pending, rejected or
\* deleted.
C26_ReadsOnlyApproved ==
    [][\A a \in ReadInputs :
          GetForumPosts(a[1], a[2], a[3])
              => \A i \in ret'.target.listed \cup ret'.target.replies :
                    i \in PostIds(posts) /\ posts[i].status = "approved"]_vars

\* a listing that returned a root and a nested reply while the same thread
\* holds a pending, a rejected or a deleted reply
C26_Witness ==
    /\ ret.op = "get_forum_posts"
    /\ ret.target.replies # {}
    /\ \E root \in ret.target.listed :
          \E i \in PostIds(posts) :
              /\ posts[i].thread_id = root
              /\ posts[i].parent_id # 0
              /\ posts[i].status \in {"pending", "rejected", "deleted"}

\* C27: moderate_forum_post called by an unauthenticated actor, or by an
\* actor who is neither admin nor moderator, returns an error and changes no
\* post's status, moderated_by or moderated_at.
C27_UnprivilegedModerationRefused ==
    [][\A uid \in Unprivileged, p \in {1, 4}, a \in {"approve", "delete"} :
          (/\ uid = 0 \/ uid \notin Users
                      \/ (~profiles[uid].is_admin /\ ~profiles[uid].is_moderator)
           /\ Moderate(uid, p, a))
              => /\ ~ret'.success
                 /\ ret'.error = (IF uid = 0 THEN "auth_required" ELSE "mod_required")
                 /\ posts' = posts]_vars

\* the plain user was refused the approval of the pending post 4
C27_Witness ==
    /\ ret.op = "moderate_forum_post" /\ ret.error = "mod_required"
    /\ ret.id = 4 /\ ret.status = "approve"
    /\ Len(posts) >= 4 /\ posts[4].status = "pending" /\ posts[4].moderated_by = 0

(***************************************************************************)
(* Votes with the responses observed: a signed-in user and a caller who is *)
(* not signed in vote on post 1 and on a post that does not exist.         *)
(***************************************************************************)
BallotRead == \E u \in {0, 1}, p \in {1, 9}, v \in {1, -1} : ToggleRead(u, p, v)

BallotWrite == \E i \in 1..MaxSessions : ToggleWrite(i)

BallotNext ==
    \/ BallotRead
    \/ BallotWrite

SpecBallot == Init /\ [][BallotNext]_vars

\* C28: toggle_vote by an unauthenticated actor returns the 'Login required
\* to vote' error and leaves forum_votes and every post's vote_score
\* unchanged, then and afterwards: the call starts no write.
C28_AnonymousVoteRefused ==
    [][\A p \in {1, 9}, v \in {1, -1} :
          ToggleRead(0, p, v)
              => /\ ~ret'.success
                 /\ ret'.error = "login_required"
                 /\ votes' = votes
                 /\ posts' = posts
                 /\ vs' = vs]_vars

\* the caller who is not signed in was refused while post 1 carries a vote
C28_Witness ==
    /\ ret.op = "toggle_vote" /\ ret.error = "login_required"
    /\ votes # {}
    /\ posts[1].vote_score # 0
    /\ \A w \in votes : w.user_id # 0

\* the ban rows that are active, unexpired and match a supplied identifier
LiveBans(p_user_id, p_ip, p_session) ==
    { i \in 1..Len(bans) :
        /\ bans[i].is_active
        /\ (bans[i].expires_at < 0 \/ bans[i].expires_at > now)
        /\ \/ (p_user_id # 0 /\ bans[i].user_id = p_user_id)
           \/ (p_ip # "NULL" /\ bans[i].ip_address = p_ip)
           \/ (p_session # "NULL" /\ bans[i].ai_session_id = p_session) }

\* C29: check_ban_status returns is_banned = true, with the type of the most
\* recently created ban among the rows that are active, unexpired and match
\* a supplied identifier, and is_banned = false if and only if there is no
\* such row.
C29_BanStatusIsLatestLiveBan ==
    \A u \in {0, 3}, ip \in {"NULL", "ip1"}, s \in {"NULL", "s1", "s2"} :
        \A r \in check_ban_status(bans, u, ip, s, now) :
            /\ r.is_banned <=> (LiveBans(u, ip, s) # {})
            /\ r.is_banned
                  => \E i \in LiveBans(u, ip, s) :
                        /\ \A j \in LiveBans(u, ip, s) : bans[j].banned_at <= bans[i].banned_at
                        /\ r.ban_type = bans[i].ban_type

(***************************************************************************)
(* check_content_filter as an endpoint: EXECUTE is granted to anon and     *)
(* authenticated, so a client calls it through rpc.  The rows of           *)
(* forum_word_filters are an input of the call: the seeded rows, or the    *)
(* seeded rows and a 'replace' row an administrator has added.             *)
(***************************************************************************)
ReplaceFilter == [word |-> <<"b","o","t">>, filter_type |-> "replace"]

FilterTables == { WordFilters, WordFilters \cup {ReplaceFilter} }

\* holds only the replace word 'bot', in upper case
ReplaceContent == <<"g","o","o","d"," ","B","O","T">>

\* holds the block word 'kill yourself' and the flag word 'shit'
BlockFlagContent ==
    <<"s","h","i","t"," ","k","i","l","l"," ","y","o","u","r","s","e","l","f">>

FilterTexts ==
    { NullText, GoodContent, BlockContent, FlagContent, ReplaceContent, BlockFlagContent, BlockTitle }

FilterResp(r) ==
    [Resp("check_content_filter", r.passed, "", 0, "") EXCEPT
        !.triggered = r.should_flag, !.target = r.blocked_words]

CheckContentFilter(filters, c) ==
    /\ Returns(FilterResp(content_filter_json(filters, c)))
    /\ UNCHANGED <<posts, bans, votes, identities, ledger, metrics, settings, now, fr, vs, rs, observe, ev, hs, cr>>

FilterCheck == \E filters \in FilterTables, c \in FilterTexts : CheckContentFilter(filters, c)

FilterAi ==
    \E c \in {GoodContent, BlockContent, FlagContent}, t \in {NullText, BlockTitle}, s \in GateSessions :
        AiSubmitPost(c, t, 0, "NULL", s)

FilterNext == FilterCheck \/ FilterAi \/ GateTick

SpecFilter == Init /\ [][FilterNext]_vars

\* the letters a and b are the same letter when case is ignored
SameLetter(a, b) == LowerChar(a) = LowerChar(b)

\* the word w occurs in the text t as a substring, case ignored
OccursIn(t, w) ==
    /\ ~IsNullText(t)
    /\ \E i \in 0..(Len(t) - Len(w)) : \A k \in 1..Len(w) : SameLetter(t[i + k], w[k])

SettingCallers == {0, 1, 2, 3, 4}

SettingInputs ==
    { <<"trigger_enabled", "false">>, <<"random_chance", "1.0">>,
      <<"posts_threshold", "2">>, <<"page_views_threshold", "1">> }

SettingUpdate ==
    \E uid \in SettingCallers, nv \in SettingInputs : UpdateAiSetting(uid, nv[1], nv[2])

SettingNext == SettingUpdate \/ TrigView \/ TrigHuman

SpecSetting == Init /\ [][SettingNext]_vars

\* C31: update_ai_setting called by an actor who is not an administrator, or
\* by a caller without a session, returns an error and leaves every scheduler
\* setting unchanged.
C31_NonAdminSettingRefused ==
    [][\A uid \in SettingCallers \ {1}, nv \in SettingInputs :
          UpdateAiSetting(uid, nv[1], nv[2])
              => /\ ~ret'.success
                 /\ ret'.error = "admin_required"
                 /\ settings' = settings]_vars

\* a call by somebody else was refused after the administrator had changed a
\* setting, and the changed setting is still in place
C31_Witness ==
    /\ ret.op = "update_ai_setting"
    /\ ret.error = "admin_required"
    /\ settings.trigger_enabled = "false"
    /\ settings.random_chance = "1.0"

\* the rows that differ from the ban b in reason, in kind (full or mute) and
\* in expiry alone, none of them expired
BanVariants(b) ==
    { [b EXCEPT !.reason = r, !.ban_type = k, !.expires_at = e] :
        r \in {"NULL", "spam"}, k \in {"full", "mute"}, e \in {-1, now + 24} }

\* the responses ai_submit_post may return when forum_bans holds bs
SubmitOutcomes(bs, c, s) ==
    { ai_submit_post(posts, v, c, NullText, 0, "NULL", s, now).ret :
        v \in check_ban_status(bs, 0, "NULL", s, now) }

\* C32: the response of ai_submit_post for a submitter under a full or mute
\* ban is the same whatever the ban's reason, kind or expiry, and the
\* response for filter-blocked content is the same whichever block word
\* matched.
C32_RejectionHidesBanAndWord ==
    /\ \A s \in GateSessions, c \in GateContents, i \in 1..Len(bans) :
          (/\ bans[i].is_active
           /\ (bans[i].expires_at < 0 \/ bans[i].expires_at > now)
           /\ bans[i].ai_session_id = s
           /\ bans[i].ban_type \in {"full", "mute"})
              => \A v \in BanVariants(bans[i]) :
                    SubmitOutcomes([bans EXCEPT ![i] = v], c, s) = SubmitOutcomes(bans, c, s)
    /\ \A c1, c2 \in {BlockContent, BlockFlagContent} :
          ai_submit_post(posts, NotBanned, c1, NullText, 0, "NULL", "s1", now).ret
              = ai_submit_post(posts, NotBanned, c2, NullText, 0, "NULL", "s1", now).ret

(***************************************************************************)
(* The frame of one evaluation of check_ai_trigger.  The administrator     *)
(* lowers the view threshold, raises the chance, lowers the daily cap and  *)
(* switches the trigger off, in this order; the personas of the roster     *)
(* record replies in the first hour; the clock moves by three hours.       *)
(***************************************************************************)
EvalSettings ==
    << <<"page_views_threshold", "1">>, <<"random_chance", "1.0">>,
       <<"max_ai_posts_per_day", "5">>, <<"trigger_enabled", "false">> >>

EvalSetting ==
    \E k \in 1..4 :
        /\ settings[EvalSettings[k][1]] # EvalSettings[k][2]
        /\ \A j \in 1..(k - 1) : settings[EvalSettings[j][1]] = EvalSettings[j][2]
        /\ UpdateAiSetting(1, EvalSettings[k][1], EvalSettings[k][2])

EvalNext == EvalSetting \/ AvailRecord \/ TrigView \/ TrigTick

SpecEval == Init /\ [][EvalNext]_vars

QuietReasons == {"disabled", "daily_limit", "conditions_not_met", "no_available_personas"}

\* C33: a check_ai_trigger call that returns disabled, daily_limit,
\* conditions_not_met or no_available_personas increments page_views and
\* page_views_since_ai by exactly 1 each, resets no counter and appends no
\* ledger entry.
C33_QuietEvaluationCountsOnly ==
    [][\A v_random \in {20, 70} :
          (CheckAiTrigger(v_random) /\ ~ret'.triggered)
              => /\ ret'.reason \in QuietReasons
                 /\ metrics'.page_views = metrics.page_views + 1
                 /\ metrics'.page_views_since_ai = metrics.page_views_since_ai + 1
                 /\ metrics'.posts_since_ai = metrics.posts_since_ai
                 /\ metrics'.last_ai_post_time = metrics.last_ai_post_time
                 /\ ledger' = ledger]_vars

\* the second evaluation answered without a trigger while recorded replies
\* were in the ledger: both view counters stand at 2
C33_Witness ==
    /\ ret.op = "check_ai_trigger"
    /\ ~ret.triggered
    /\ ret.reason \in QuietReasons
    /\ metrics.page_views = 2
    /\ metrics.page_views_since_ai = 2
    /\ ledger # EmptyBag

\* the 'trigger_check' row check_ai_trigger inserts for a persona
TriggerCheckEntry(persona, at) ==
    [persona_name |-> persona, action_type |-> "trigger_check", post_id |-> 0, created_at |-> at]

\* C34: a check_ai_trigger call that returns triggered = true appends exactly
\* one 'trigger_check' ledger entry, for the returned persona, leaves
\* page_views_since_ai and posts_since_ai at 0, and does not reset the total
\* page_views counter.
C34_TriggerRecordsAndResets ==
    [][\A v_random \in {20, 70} :
          (CheckAiTrigger(v_random) /\ ret'.triggered)
              => /\ ret'.persona \in Personas
                 /\ ledger' = ledger (+) SetToBag({TriggerCheckEntry(ret'.persona, now)})
                 /\ metrics'.page_views_since_ai = 0
                 /\ metrics'.posts_since_ai = 0
                 /\ metrics'.page_views = metrics.page_views + 1]_vars

\* the second evaluation fired: its 'trigger_check' row is in the ledger, the
\* views since the last synthetic activity are back at 0 and the total is 2
C34_Witness ==
    /\ ret.op = "check_ai_trigger"
    /\ ret.triggered
    /\ TriggerCheckEntry(ret.persona, now) \in BagToSet(ledger)
    /\ metrics.page_views = 2
    /\ metrics.page_views_since_ai = 0

(***************************************************************************)
(* Concurrent check_ai_trigger calls.  Each call is one transaction.  Its  *)
(* first statement, UPDATE forum_metrics ... WHERE metric_name =           *)
(* 'page_views', waits for the row lock, reads the committed value, and    *)
(* holds the lock until the transaction commits; the new value is private  *)
(* to the transaction until then.  Every other statement of the function   *)
(* therefore runs while the transaction holds that lock.                   *)
(***************************************************************************)
MaxEvals == 3

\* the row of 'page_views' is taken without waiting for its lock
RowLockFree_no_wait(flight) == TRUE

\* no open transaction holds the lock of the row of 'page_views'
RowLockFree(flight) == \A j \in 1..Len(flight) : ~flight[j].holds

\* a client issues the call
ConcCall ==
    /\ ev.completed + Len(ev.flight) < MaxEvals
    /\ ev' = [ev EXCEPT !.flight = Append(@, [holds |-> FALSE, counted |-> metrics])]
    /\ UNCHANGED <<posts, bans, votes, identities, ledger, metrics, settings, now, fr, vs, rs, observe, hs, cr, ret>>

\* the two UPDATEs of call i that count the page view
ConcCount(i) ==
    /\ i \in 1..Len(ev.flight)
    /\ ~ev.flight[i].holds
    /\ RowLockFree(ev.flight)
    /\ ev' = [ev EXCEPT !.flight[i] = [holds |-> TRUE, counted |-> CountView(metrics)]]
    /\ UNCHANGED <<posts, bans, votes, identities, ledger, metrics, settings, now, fr, vs, rs, observe, hs, cr, ret>>

\* the metrics as call t saw them before it counted its page view
BeforeCount(t) ==
    [metrics EXCEPT !.page_views = t.counted.page_views - 1,
                    !.page_views_since_ai = t.counted.page_views_since_ai - 1]

\* the rest of call i, from the read of the settings to the commit
ConcCommit(i, v_random) ==
    /\ i \in 1..Len(ev.flight)
    /\ ev.flight[i].holds
    /\ BagCardinality(ledger) < MaxLedger
    /\ \E chosen \in (IF AvailablePersonas(ledger, settings, now) = {} THEN {""}
                      ELSE AvailablePersonas(ledger, settings, now)),
          v_target \in (IF TargetRows(posts, now) = {} THEN {0} ELSE TargetRows(posts, now)) :
          LET r == check_ai_trigger(posts, ledger, BeforeCount(ev.flight[i]), settings, now,
                                    v_random, chosen, v_target)
          IN  ledger' = r.ledger /\ metrics' = r.metrics /\ Returns(r.ret)
    /\ ev' = [flight |-> RemoveAt(ev.flight, i), completed |-> ev.completed + 1]
    /\ UNCHANGED <<posts, bans, votes, identities, settings, now, fr, vs, rs, observe, hs, cr>>

ConcCounts == \E i \in 1..MaxEvals : ConcCount(i)

ConcCommits == \E i \in 1..MaxEvals, v_random \in {20, 70} : ConcCommit(i, v_random)

ConcNext == ConcCall \/ ConcCounts \/ ConcCommits \/ EvalSetting \/ TrigHuman

SpecConc == Init /\ [][ConcNext]_vars

\* C35: after any interleaving of N completed check_ai_trigger calls the
\* page_views counter equals its initial value plus N, and page_views never
\* decreases.
C35_PageViewsCountsEveryCall ==
    [][/\ metrics'.page_views = InitialMetrics.page_views + ev'.completed
       /\ metrics'.page_views >= metrics.page_views]_vars

\* one call has committed, a second holds the lock of the row and a third
\* waits for it
C35_Witness ==
    /\ ev.completed = 1
    /\ metrics.page_views = 1
    /\ \E i, j \in 1..Len(ev.flight) : ev.flight[i].holds /\ ~ev.flight[j].holds

(***************************************************************************)
(* Deletion over chains of replies: a signed-in user replies to posts of   *)
(* any status, the administrator and the moderator approve and delete.     *)
(***************************************************************************)
PromoteModerate ==
    \E uid \in {1, 2}, p \in TreeTargets, a \in {"approve", "delete"} : Moderate(uid, p, a)

PromoteNext == TreeCreate \/ PromoteModerate

SpecPromote == InitQuiet /\ [][PromoteNext]_vars

\* C36: a delete issued on an already-deleted post changes no post's
\* parent_id, thread_id or title, and deleting a post P changes parent_id,
\* thread_id and title only of the posts whose parent_id is P; posts two or
\* more levels below P keep their parent and thread references.
C36_DeletePromotesOneLevelOnce ==
    [][\A uid \in {1, 2}, p \in 1..(MaxPosts + 1) :
          (/\ p \in PostIds(posts)
           /\ Len(posts') = Len(posts)
           /\ posts'[p].status = "deleted"
           /\ Moderate(uid, p, "delete"))
              => \A i \in PostIds(posts) :
                    (posts[p].status = "deleted" \/ posts[i].parent_id # p)
                        => /\ posts'[i].parent_id = posts[i].parent_id
                           /\ posts'[i].thread_id = posts[i].thread_id
                           /\ posts'[i].title = posts[i].title]_vars

\* post 1 was deleted when post 4 was its reply and post 5 a reply to post 4:
\* post 4 is a root now, post 5 still names post 4 and the thread of post 1
C36_Witness ==
    /\ Len(posts) = 5
    /\ posts[1].status = "deleted"
    /\ posts[4].parent_id = 0
    /\ posts[4].thread_id = 4
    /\ posts[5].parent_id = 4
    /\ posts[5].thread_id = 1

(***************************************************************************)
(* The text-generation request.  fetch resolves with a success status and  *)
(* the generated text, resolves with a non-success status and the body of  *)
(* the error page, or rejects.  checkAndRespond throws on a status that is *)
(* not ok; forceRespond reads the body whatever the status.                *)
(***************************************************************************)
ErrorBody == <<"5","0","2"," ","B","a","d"," ","G","a","t","e","w","a","y">>

FetchResults ==
    { [kind |-> "ok", body |-> GoodContent],
      [kind |-> "status", body |-> ErrorBody],
      [kind |-> "rejected", body |-> NullText] }

\* the try block of checkAndRespond: NULL when the catch block runs
CheckGenerated(f) == IF f.kind = "ok" THEN f.body ELSE NullText

\* the try block of forceRespond: NULL when the catch block runs
ForceGenerated(f) == IF f.kind = "rejected" THEN NullText ELSE f.body

\* one handler runs at a time
GenCheck ==
    /\ cr = <<>>
    /\ fr.pc = "idle"
    /\ \E f \in FetchResults : CheckAndRespond(20, CheckGenerated(f))

GenForce ==
    /\ cr = <<>>
    /\ \E f \in FetchResults, r \in BOOLEAN : ForceSelect("Alex", 1, r, ForceGenerated(f))

GenNext ==
    \/ PipeCreate
    \/ PipeModerate
    \/ FailSetting
    \/ GenCheck
    \/ PipeSubmit
    \/ PipeRecord
    \/ GenForce
    \/ ForceInsert
    \/ ForcePatch
    \/ ForceRecord

SpecGen == InitQuiet /\ [][GenNext]_vars

\* C37: in checkAndRespond and in forceRespond, whenever the text-generation
\* request fails (transport error or non-success HTTP status), the content
\* submitted is one of the chosen persona's canned templates and the
\* response carries no generation error: the handler goes on to submit.
C37_FailedGenerationUsesTemplate ==
    [][\A f \in { g \in FetchResults : g.kind # "ok" } :
          /\ (CheckAndRespond(20, CheckGenerated(f)) /\ Len(cr') > Len(cr))
                => /\ cr'[Len(cr')].content \in Templates(cr'[Len(cr')].persona)
                   /\ ret' = ret
          /\ \A r \in BOOLEAN :
                (ForceSelect("Alex", 1, r, ForceGenerated(f)) /\ fr'.pc = "insert")
                    => /\ fr'.content \in Templates(fr'.persona)
                       /\ ret' = ret]_vars

(***************************************************************************)
(* The three cases of toggle_vote, for a call that runs with no other call *)
(* of the same user on the same post between its read and its write.      *)
(***************************************************************************)
\* the user's vote on the post: 1, -1, or 0 for no row
CurrentVote(vt, u, p) ==
    IF VoteRows(vt, u, p) = {} THEN 0 ELSE (CHOOSE v \in VoteRows(vt, u, p) : TRUE).vote_type

\* toggle_vote(p, sign) by u run as one piece on the tables ps and vt
toggle_vote_alone(ps, vt, u, p, sign) ==
    toggle_vote_write(ps, vt, u, p, sign, toggle_vote_read(ps, vt, u, p).existing)

\* the tables after two consecutive toggle_vote(p, sign) calls by u
TwoToggles(u, p, sign) ==
    LET first == toggle_vote_alone(posts, votes, u, p, sign)
    IN  toggle_vote_alone(first.posts, first.votes, u, p, sign)

\* the write of call i changes the score and the vote rows as its case says
ToggleCase(i) ==
    LET t    == vs[i]
        cur  == CurrentVote(votes, t.user_id, t.post_id)
        row  == [user_id |-> t.user_id, post_id |-> t.post_id, vote_type |-> t.vote_type]
        mine == VoteRows(votes, t.user_id, t.post_id)
    IN  /\ \A q \in PostIds(posts) \ {t.post_id} : posts'[q].vote_score = posts[q].vote_score
        /\ cur = 0
              => /\ posts'[t.post_id].vote_score = posts[t.post_id].vote_score + t.vote_type
                 /\ votes' = votes \cup {row}
        /\ (cur # 0 /\ cur = t.vote_type)
              => /\ posts'[t.post_id].vote_score = posts[t.post_id].vote_score - t.vote_type
                 /\ votes' = votes \ mine
        /\ (cur # 0 /\ cur # t.vote_type)
              => /\ posts'[t.post_id].vote_score = posts[t.post_id].vote_score + 2 * t.vote_type
                 /\ votes' = (votes \ mine) \cup {row}

\* every write of a call whose read still describes the user's vote follows its case
ToggleCases ==
    \A i \in 1..MaxSessions :
        (/\ i \in 1..Len(vs)
         /\ vs[i].existing = CurrentVote(votes, vs[i].user_id, vs[i].post_id)
         /\ ToggleWrite(i))
            => ToggleCase(i)

\* C38: each toggle_vote(sign) call by an authenticated user on an existing
\* post changes the post's vote_score by +sign when the user had no vote, by
\* -sign when the user's vote had the same sign (the row is removed) and by
\* +2*sign when it had the opposite sign (the row is updated in place); two
\* consecutive same-sign toggles restore the original score and vote rows
\* when the user had no vote or a vote of that sign, and leave no vote of
\* the user and the score changed by +sign when the vote had the opposite sign.
C38_ToggleDeltas ==
    [][/\ ToggleCases
       /\ \A u \in Voters \ {0}, p \in VotedPosts \cap PostIds(posts), sign \in {1, -1} :
             LET after == TwoToggles(u, p, sign)
             IN  IF CurrentVote(votes, u, p) # -sign
                 THEN after.posts = posts /\ after.votes = votes
                 ELSE /\ after.votes = votes \ VoteRows(votes, u, p)
                      /\ after.posts[p].vote_score = posts[p].vote_score + sign]_vars

\* C38 as the specification states it: the three cases, and two consecutive
\* same-sign toggles restore the original score and vote rows whatever the
\* user's vote was
C38_TwoTogglesAlwaysRestore ==
    [][/\ ToggleCases
       /\ \A u \in Voters \ {0}, p \in VotedPosts \cap PostIds(posts), sign \in {1, -1} :
             LET after == TwoToggles(u, p, sign)
             IN  after.posts = posts /\ after.votes = votes]_vars

\* user 1 holds a down vote on post 1 after an earlier call, and a call by
\* user 1 for an up vote has read that vote and is about to write
C38_Witness ==
    /\ votes = {[user_id |-> 1, post_id |-> 1, vote_type |-> -1]}
    /\ posts[1].vote_score = -1
    /\ ret.op = "toggle_vote"
    /\ ret.success
    /\ \E i \in 1..Len(vs) :
          vs[i].user_id = 1 /\ vs[i].post_id = 1 /\ vs[i].existing = -1 /\ vs[i].vote_type = 1

\* C39: checkAndRespond answers responded = true only if ai_submit_post
\* persisted a post and a 'reply' ledger entry referencing it was recorded;
\* when ai_submit_post returns an error result or the fake success of a
\* shadow ban, the response is not responded = true.
C39_RespondedMeansPosted ==
    (ret.op = "checkAndRespond" /\ ret.success)
        => /\ ret.id \in PostIds(posts)
           /\ posts[ret.id].author_type = "ai"
           /\ \E e \in BagToSet(ledger) : e.action_type = "reply" /\ e.post_id = ret.id

====
